---- MODULE Spec2Model ----
(***************************************************************************)
(* Vynl-Sample: the step sequencer (SequencerService), the transport and   *)
(* the pad triggers of AudioService, and the keyboard handling of          *)
(* InputService, as one state machine.                                     *)
(*                                                                         *)
(* Numbers are JavaScript numbers: a value is NaN or an integer of the     *)
(* scale its comment states.                                               *)
(* Step indices are 0-based as in the code; sequences are 1-based, so      *)
(* step s of a track is steps[s + 1].                                      *)
(***************************************************************************)
EXTENDS Integers, Sequences, FiniteSets, TLC

VARIABLES
    pattern,            \* SequencerService._currentPattern
    playbackState,      \* SequencerService._playbackState
    selectedTrack,      \* SequencerService._selectedTrack ("null" or a track id)
    selectedStep,       \* SequencerService._selectedStep (-1 for null)
    stepPlaybackCache,  \* SequencerService.stepPlaybackCache: step -> track snapshots
    updateQueue,        \* SequencerService.updateQueue, in insertion order
    isUpdating,         \* SequencerService.isUpdating
    rafScheduled,       \* a requestAnimationFrame callback for processUpdateQueue is pending
    lastUpdateTime,     \* SequencerService.lastUpdateTime
    sequence,           \* SequencerService.sequence: "null" or "live"
    liveSequences,      \* the Tone.Sequence objects created and not disposed
    now,                \* the clock in ms (performance.now() and Date.now())
    transport,          \* Tone.Transport: state, position (next step), bpm
    drawQueue,          \* callbacks given to Tone.Draw.schedule and not yet delivered
    lastFire,           \* the last step callback: its step, the playPadWithEffects calls
                        \* it made, and the calls playStep would have made instead
    toggleCalls,        \* the steps toggleStep was called on an odd number of times
    lastWrite,          \* the most recent updateStepVelocity and updateStepPan call on
                        \* each step since the last stop(), and whether it was queued
    isInitialized,      \* AudioService.isInitialized
    initPending,        \* the calls of AudioService.initialize() that await Tone.start()
    audioPlaying,       \* AudioService._isPlaying
    helperOut,          \* the results of AudioService.applySwing and applyHumanize
    isListening,        \* InputService.isListening
    listeners,          \* the keydown/keyup listener pairs registered on the document
    pressedKeys,        \* InputService.pressedKeys
    keysHeld,           \* the physical keys held down
    lastKey,            \* the last keyboard event and the pads it triggered
    samplerComponent,   \* InputService.samplerComponent: "null" or "sampler"
    midiPending,        \* the calls of initializeMIDI() that await requestMIDIAccess()
    midiListeners,      \* the midimessage listeners registered on the MIDI input
    lastInput,          \* the last keyboard or MIDI event that was heard: the triggerPad
                        \* calls it made and the pads that sounded, with their volume
    players,            \* AudioService.players: pad -> isLoaded, buffer, player, sampleName
    loadingPromises,    \* AudioService.loadingPromises: pad -> index of its load in loads
    loads,              \* the calls of loadSampleOptimized, pending and settled
    loadCalls,          \* the calls of loadSampleFromFile, pending and resolved
    lastPlayTime,       \* AudioService.lastPlayTime
    sampler,            \* the SamplerComponent; its pc is "none" before it is created
    exchanges           \* the requests the backend has answered, with its responses

seqVars == <<pattern, playbackState, selectedTrack, selectedStep, stepPlaybackCache,
             updateQueue, isUpdating, rafScheduled, lastUpdateTime, sequence,
             liveSequences, now, transport, drawQueue>>

audioVars == <<isInitialized, initPending, audioPlaying, helperOut>>

inputVars == <<isListening, listeners, pressedKeys, keysHeld, lastKey>>

\* what the properties observe of a run
obsVars == <<lastFire, toggleCalls, lastWrite>>

midiVars == <<samplerComponent, midiPending, midiListeners, lastInput>>

padVars == <<players, loadingPromises, loads, loadCalls, lastPlayTime, sampler>>

backendVars == <<exchanges>>

vars == <<seqVars, obsVars, audioVars, inputVars, midiVars, padVars, backendVars>>

----------------------------------------------------------------------------
(* JavaScript numbers *)

\* NaN is the one value that is not a number; no computation of the model reaches it
NaN == -999999999

\* the number n
Num(n) == n

\* a > b in JavaScript: false when either side is NaN
Gt(a, b) == a # NaN /\ b # NaN /\ a > b

\* a < b in JavaScript
Lt(a, b) == a # NaN /\ b # NaN /\ a < b

\* a >= b in JavaScript
Ge(a, b) == a # NaN /\ b # NaN /\ a >= b

\* a <= b in JavaScript
Le(a, b) == a # NaN /\ b # NaN /\ a <= b

\* Math.min(a, b): NaN when either argument is NaN
MathMin(a, b) == IF a = NaN \/ b = NaN THEN NaN ELSE IF a < b THEN a ELSE b

\* Math.max(a, b): NaN when either argument is NaN
MathMax(a, b) == IF a = NaN \/ b = NaN THEN NaN ELSE IF a > b THEN a ELSE b

----------------------------------------------------------------------------
(* Program constants *)

NumTracks == 16

PatternLength == 16

minUpdateInterval == 16

DefaultVelocity == 100

DefaultProbability == 100

DefaultBpm == 120

MinBpm == 60

MaxBpm == 200

MaxVelocity == 127

MaxPercent == 100

NumPads == 16

minPlayInterval == 16

DefaultPadVolume == 80

FirstMidiNote == 48

NoteOnFirst == 144

NoteOnLast == 159

(* Bounds of the model *)

\* a pan p of the program is the integer p * PanUnit of the model
PanUnit == 2

\* the clock is followed up to MaxClock ms
MaxClock == 32

\* at most MaxQueue updates wait in the update queue
MaxQueue == 1

\* a run of the transport is followed for MaxSteps step callbacks
MaxSteps == 2

\* at most MaxDraw visual updates are pending
MaxDraw == 1

\* at most MaxInit calls of AudioService.initialize() wait for Tone.start()
MaxInit == 1

\* startListening() registers listeners at most MaxListeners times
MaxListeners == 2

\* at most MaxLoads calls of loadSampleFromFile are followed
MaxLoads == 2

\* the backend is followed for MaxRequests requests
MaxRequests == 3

\* Math.random() returns k / RandRes for some k in 0..RandRes-1
RandRes == 4

----------------------------------------------------------------------------
(* The pattern *)

TrackId(i) == "track-" \o ToString(i)

\* a step; its triplet and noteLength, which nothing reads, are left out
defaultStep ==
    [isActive |-> FALSE, velocity |-> Num(DefaultVelocity), pan |-> Num(0),
     humanize |-> Num(0), probability |-> Num(DefaultProbability), swing |-> Num(0)]

createEmptySteps(length) == [i \in 1..length |-> defaultStep]

\* the tracks; their name, volume, pan and color, which nothing reads, are left out
initialTracks ==
    [i \in 1..NumTracks |->
        [id |-> TrackId(i - 1), padIndex |-> i - 1,
         steps |-> createEmptySteps(16),
         mute |-> FALSE, solo |-> FALSE, isSelected |-> FALSE]]

initializePattern ==
    [id |-> "pattern-1", tracks |-> initialTracks,
     length |-> PatternLength, swing |-> Num(0), humanize |-> Num(0)]

\* pattern.tracks.filter(track => !track.mute && track.steps[stepIndex]?.isActive)
activeTracksForStep(p, stepIndex) ==
    SelectSeq(p.tracks, LAMBDA track:
        /\ ~track.mute
        /\ (stepIndex + 1) \in DOMAIN track.steps
        /\ track.steps[stepIndex + 1].isActive)

\* stepPlaybackCache.clear(), then one entry per step of the pattern
precomputeStepPlayback(p) ==
    [stepIndex \in 0..(p.length - 1) |-> activeTracksForStep(p, stepIndex)]

\* stepPlaybackCache.set(stepIndex, tracks)
cacheSet(cache, stepIndex, tracks) ==
    [k \in (DOMAIN cache) \cup {stepIndex} |->
        IF k = stepIndex THEN tracks ELSE cache[k]]

\* an updateStepCache that leaves the cached entry as it was
updateStepCacheKept(cache, p, stepIndex) == cache

updateStepCache(cache, p, stepIndex) ==
    cacheSet(cache, stepIndex, activeTracksForStep(p, stepIndex))

\* pattern.tracks.map(track => track.id === trackId ? {...track, steps: steps'} : track)
\* with steps' = track.steps.map((step, index) => index === stepIndex ? f(step) : step)
toggledSteps(steps, stepIndex) ==
    [i \in DOMAIN steps |->
        IF i - 1 = stepIndex
        THEN [steps[i] EXCEPT !.isActive = ~steps[i].isActive]
        ELSE steps[i]]

toggleStepImmediate(p, trackId, stepIndex) ==
    [p EXCEPT !.tracks = [i \in DOMAIN p.tracks |->
        IF p.tracks[i].id = trackId
        THEN [p.tracks[i] EXCEPT !.steps = toggledSteps(p.tracks[i].steps, stepIndex)]
        ELSE p.tracks[i]]]

\* a velocity update that keeps only the step it changes
velocityStepsOnly(steps, stepIndex, velocity) ==
    SelectSeq([i \in DOMAIN steps |-> [steps[i] EXCEPT !.velocity = velocity]],
              LAMBDA step : step = [steps[stepIndex + 1] EXCEPT !.velocity = velocity])

velocitySteps(steps, stepIndex, velocity) ==
    [i \in DOMAIN steps |->
        IF i - 1 = stepIndex
        THEN [steps[i] EXCEPT !.velocity = velocity]
        ELSE steps[i]]

clampVelocity(velocity) == MathMax(Num(0), MathMin(Num(MaxVelocity), velocity))

updateStepVelocityImmediate(p, trackId, stepIndex, velocity) ==
    [p EXCEPT !.tracks = [i \in DOMAIN p.tracks |->
        IF p.tracks[i].id = trackId
        THEN [p.tracks[i] EXCEPT !.steps =
                velocitySteps(p.tracks[i].steps, stepIndex, clampVelocity(velocity))]
        ELSE p.tracks[i]]]

panSteps(steps, stepIndex, pan) ==
    [i \in DOMAIN steps |->
        IF i - 1 = stepIndex
        THEN [steps[i] EXCEPT !.pan = pan]
        ELSE steps[i]]

clampPan(pan) == MathMax(Num(-PanUnit), MathMin(Num(PanUnit), pan))

updateStepPanImmediate(p, trackId, stepIndex, pan) ==
    [p EXCEPT !.tracks = [i \in DOMAIN p.tracks |->
        IF p.tracks[i].id = trackId
        THEN [p.tracks[i] EXCEPT !.steps =
                panSteps(p.tracks[i].steps, stepIndex, clampPan(pan))]
        ELSE p.tracks[i]]]

clampPercent(amount) == MathMax(Num(0), MathMin(Num(MaxPercent), amount))

\* a setBPM that applies its argument as it is
clampBPMNone(bpm) == bpm

clampBPM(bpm) == MathMax(Num(MinBpm), MathMin(Num(MaxBpm), bpm))

----------------------------------------------------------------------------
(* Playing a step *)

\* n * k for a JavaScript number n and a number k of the model
NumTimes(n, k) == IF n = NaN THEN NaN ELSE Num(n * k)

NumAdd(a, b) == IF a = NaN \/ b = NaN THEN NaN ELSE Num(a + b)

\* Math.random() * 100 > step.probability, with Math.random() = r / RandRes
probabilitySkips(r, probability) == Gt(Num(r * 100), NumTimes(probability, RandRes))

(* Times are offsets from the nominal time of the step, in units of
   1 / RandRes microseconds, so that (Math.random() - 0.5) * amount is exact:
   one second is 1000000 * RandRes units. *)
UnitsPerMs == 1000 * RandRes

\* (Math.random() - 0.5) * (max * 0.0002) seconds is (2r - RandRes) * max * 100 units
humanizeOptimized(scheduledTime, step, p, r) ==
    IF Gt(step.humanize, Num(0)) \/ Gt(p.humanize, Num(0))
    THEN NumAdd(scheduledTime,
                NumTimes(MathMax(step.humanize, p.humanize), (2 * r - RandRes) * 100))
    ELSE scheduledTime

\* a swing that delays every step
swingEveryStep(scheduledTime, step, p, stepIndex) ==
    IF Gt(step.swing, Num(0)) \/ Gt(p.swing, Num(0))
    THEN NumAdd(scheduledTime, NumTimes(MathMax(step.swing, p.swing), 500 * RandRes))
    ELSE scheduledTime

\* max * 0.0005 seconds is max * 500 microseconds
swingOptimized(scheduledTime, step, p, stepIndex) ==
    IF Gt(step.swing, Num(0)) \/ Gt(p.swing, Num(0))
    THEN IF stepIndex % 2 = 1
         THEN NumAdd(scheduledTime, NumTimes(MathMax(step.swing, p.swing), 500 * RandRes))
         ELSE scheduledTime
    ELSE scheduledTime

\* step.velocity * 0.007874, as a numerator over GainDen
GainDen == 127000000

gainOptimized(velocity) == NumTimes(velocity, 7874 * 127)

\* step.velocity / 127, as a numerator over GainDen
gainPlain(velocity) == NumTimes(velocity, 1000000)

\* the playPadWithEffects call of playStepOptimized for one cached track
triggerOptimized(track, p, stepIndex, rh) ==
    LET step == track.steps[stepIndex + 1]
    IN  [padIndex |-> track.padIndex,
         stepVelocity |-> step.velocity,
         velocity |-> gainOptimized(step.velocity),
         pan |-> step.pan,
         time |-> swingOptimized(humanizeOptimized(Num(0), step, p, rh), step, p, stepIndex)]

\* the playPadWithEffects calls of playStepOptimized(stepIndex, time)
playStepOptimized(cache, p, stepIndex, rp, rh) ==
    IF stepIndex \notin DOMAIN cache
    THEN {}
    ELSE LET activeTracks == cache[stepIndex]
         IN  { triggerOptimized(activeTracks[i], p, stepIndex, rh) :
                 i \in { j \in DOMAIN activeTracks :
                           /\ activeTracks[j].steps[stepIndex + 1].isActive
                           /\ ~probabilitySkips(rp, activeTracks[j].steps[stepIndex + 1].probability) } }

\* (Math.random() - 0.5) * (max / 100) * 0.02 seconds
humanizePlain(scheduledTime, step, p, r) ==
    IF Gt(step.humanize, Num(0)) \/ Gt(p.humanize, Num(0))
    THEN NumAdd(scheduledTime,
                NumTimes(MathMax(step.humanize, p.humanize), (2 * r - RandRes) * 100))
    ELSE scheduledTime

\* (max / 100) * 0.05 seconds on odd steps
swingPlain(scheduledTime, step, p, stepIndex) ==
    IF Gt(step.swing, Num(0)) \/ Gt(p.swing, Num(0))
    THEN IF stepIndex % 2 = 1
         THEN NumAdd(scheduledTime, NumTimes(MathMax(step.swing, p.swing), 500 * RandRes))
         ELSE scheduledTime
    ELSE scheduledTime

triggerPlain(track, p, stepIndex, rh) ==
    LET step == track.steps[stepIndex + 1]
    IN  [padIndex |-> track.padIndex,
         stepVelocity |-> step.velocity,
         velocity |-> gainPlain(step.velocity),
         pan |-> step.pan,
         time |-> swingPlain(humanizePlain(Num(0), step, p, rh), step, p, stepIndex)]

\* the playPadWithEffects calls of playStep(stepIndex, time), the uncached path
playStep(p, stepIndex, rp, rh) ==
    { triggerPlain(p.tracks[i], p, stepIndex, rh) :
        i \in { j \in DOMAIN p.tracks :
                  /\ ~p.tracks[j].mute
                  /\ p.tracks[j].steps[stepIndex + 1].isActive
                  /\ ~probabilitySkips(rp, p.tracks[j].steps[stepIndex + 1].probability) } }

\* AudioService.applySwing(baseTime, stepIndex, swingAmount)
applySwing(baseTime, stepIndex, swingAmount) ==
    IF swingAmount = Num(0)
    THEN baseTime
    ELSE IF stepIndex % 2 = 1
         THEN NumAdd(baseTime, NumTimes(swingAmount, 500 * RandRes))
         ELSE baseTime

\* AudioService.applyHumanize(baseTime, humanizeAmount), with Math.random() = r / RandRes:
\* (r - 0.5) * 2 * (amount / 100) * 0.02 seconds is (2r - RandRes) * amount * 200 units
applyHumanize(baseTime, humanizeAmount, r) ==
    IF humanizeAmount = Num(0)
    THEN baseTime
    ELSE NumAdd(baseTime, NumTimes(humanizeAmount, (2 * r - RandRes) * 200))

----------------------------------------------------------------------------
(* The update queue *)

\* updateQueue.set(`${action}-${Date.now()}`, {action, data}): a Map keeps the
\* place of a key it already holds and replaces its value
queueUpdate(queue, action, data, dateNow) ==
    LET entry == [key |-> <<action, dateNow>>, action |-> action, data |-> data]
        held  == { i \in DOMAIN queue : queue[i].key = entry.key }
    IN  IF held = {}
        THEN Append(queue, entry)
        ELSE [i \in DOMAIN queue |-> IF i \in held THEN entry ELSE queue[i]]

\* one update of processUpdateQueue applied to st = [pattern, cache]
applyUpdate(st, update) ==
    CASE update.action = "toggleStep" ->
            LET p == toggleStepImmediate(st.pattern, update.data.trackId, update.data.stepIndex)
            IN  [pattern |-> p, cache |-> updateStepCache(st.cache, p, update.data.stepIndex)]
      [] update.action = "updateVelocity" ->
            [st EXCEPT !.pattern = updateStepVelocityImmediate(
                st.pattern, update.data.trackId, update.data.stepIndex, update.data.velocity)]
      [] update.action = "updatePan" ->
            [st EXCEPT !.pattern = updateStepPanImmediate(
                st.pattern, update.data.trackId, update.data.stepIndex, update.data.pan)]
      [] OTHER -> st

RECURSIVE applyUpdates(_, _)
\* updates.forEach(...) of processUpdateQueue
applyUpdates(st, updates) ==
    IF updates = <<>>
    THEN st
    ELSE applyUpdates(applyUpdate(st, Head(updates)), Tail(updates))

\* now - this.lastUpdateTime < this.minUpdateInterval
debounced == now - lastUpdateTime < minUpdateInterval

\* the part of queueUpdate after the set: the first update of a batch asks for a frame
QueueAndSchedule(action, data) ==
    /\ Len(queueUpdate(updateQueue, action, data, now)) <= MaxQueue
    /\ updateQueue' = queueUpdate(updateQueue, action, data, now)
    /\ isUpdating' = TRUE
    /\ rafScheduled' = (rafScheduled \/ ~isUpdating)

\* toggleCalls with one more toggleStep(trackId, stepIndex) call counted
countToggle(calls, trackId, stepIndex) ==
    IF <<trackId, stepIndex>> \in calls
    THEN calls \ {<<trackId, stepIndex>>}
    ELSE calls \cup {<<trackId, stepIndex>>}

----------------------------------------------------------------------------
(* SequencerService *)

SeqInit ==
    /\ pattern = initializePattern
    /\ playbackState = [isPlaying |-> FALSE, currentStep |-> 0,
                        bpm |-> Num(DefaultBpm), subdivision |-> 16]
    /\ selectedTrack = "null"
    /\ selectedStep = -1
    /\ stepPlaybackCache = precomputeStepPlayback(initializePattern)
    /\ updateQueue = <<>>
    /\ isUpdating = FALSE
    /\ rafScheduled = FALSE
    /\ lastUpdateTime = 0
    /\ sequence = "null"
    /\ liveSequences = 0
    /\ now = minUpdateInterval
    /\ transport = [state |-> "stopped", position |-> 0, bpm |-> Num(DefaultBpm)]
    /\ drawQueue = <<>>

toggleStep(trackId, stepIndex) ==
    IF debounced
    THEN /\ QueueAndSchedule("toggleStep", [trackId |-> trackId, stepIndex |-> stepIndex])
         /\ UNCHANGED <<pattern, playbackState, selectedTrack, selectedStep,
                        stepPlaybackCache, lastUpdateTime, sequence, liveSequences, now,
                        transport, drawQueue, audioVars, inputVars, midiVars, backendVars,
                        padVars>>
    ELSE /\ lastUpdateTime' = now
         /\ pattern' = toggleStepImmediate(pattern, trackId, stepIndex)
         /\ stepPlaybackCache' = updateStepCache(stepPlaybackCache, pattern', stepIndex)
         /\ UNCHANGED <<playbackState, selectedTrack, selectedStep, updateQueue, isUpdating,
                        rafScheduled, sequence, liveSequences, now, transport, drawQueue,
                        audioVars, inputVars, midiVars, backendVars, padVars>>

\* the requestAnimationFrame callback
processUpdateQueue ==
    /\ rafScheduled
    /\ LET st == applyUpdates([pattern |-> pattern, cache |-> stepPlaybackCache], updateQueue)
       IN  /\ pattern' = st.pattern
           /\ stepPlaybackCache' = st.cache
    /\ updateQueue' = <<>>
    /\ isUpdating' = FALSE
    /\ rafScheduled' = FALSE
    /\ UNCHANGED <<playbackState, selectedTrack, selectedStep, lastUpdateTime, sequence,
                   liveSequences, now, transport, drawQueue, audioVars, inputVars, midiVars,
                   backendVars, padVars>>

updateStepVelocity(trackId, stepIndex, velocity) ==
    IF debounced
    THEN /\ QueueAndSchedule("updateVelocity",
                [trackId |-> trackId, stepIndex |-> stepIndex, velocity |-> velocity])
         /\ UNCHANGED <<pattern, playbackState, selectedTrack, selectedStep,
                        stepPlaybackCache, lastUpdateTime, sequence, liveSequences, now,
                        transport, drawQueue, audioVars, inputVars, midiVars, backendVars,
                        padVars>>
    ELSE /\ lastUpdateTime' = now
         /\ pattern' = updateStepVelocityImmediate(pattern, trackId, stepIndex, velocity)
         /\ UNCHANGED <<playbackState, selectedTrack, selectedStep, stepPlaybackCache,
                        updateQueue, isUpdating, rafScheduled, sequence, liveSequences, now,
                        transport, drawQueue, audioVars, inputVars, midiVars, backendVars,
                        padVars>>

updateStepPan(trackId, stepIndex, pan) ==
    IF debounced
    THEN /\ QueueAndSchedule("updatePan",
                [trackId |-> trackId, stepIndex |-> stepIndex, pan |-> pan])
         /\ UNCHANGED <<pattern, playbackState, selectedTrack, selectedStep,
                        stepPlaybackCache, lastUpdateTime, sequence, liveSequences, now,
                        transport, drawQueue, audioVars, inputVars, midiVars, backendVars,
                        padVars>>
    ELSE /\ lastUpdateTime' = now
         /\ pattern' = updateStepPanImmediate(pattern, trackId, stepIndex, pan)
         /\ UNCHANGED <<playbackState, selectedTrack, selectedStep, stepPlaybackCache,
                        updateQueue, isUpdating, rafScheduled, sequence, liveSequences, now,
                        transport, drawQueue, audioVars, inputVars, midiVars, backendVars,
                        padVars>>

updateGlobalHumanize(amount) ==
    /\ pattern' = [pattern EXCEPT !.humanize = clampPercent(amount)]
    /\ UNCHANGED <<playbackState, selectedTrack, selectedStep, stepPlaybackCache,
                   updateQueue, isUpdating, rafScheduled, lastUpdateTime, sequence,
                   liveSequences, now, transport, drawQueue, audioVars, inputVars, midiVars,
                   backendVars, padVars>>

updateGlobalSwing(amount) ==
    /\ pattern' = [pattern EXCEPT !.swing = clampPercent(amount)]
    /\ UNCHANGED <<playbackState, selectedTrack, selectedStep, stepPlaybackCache,
                   updateQueue, isUpdating, rafScheduled, lastUpdateTime, sequence,
                   liveSequences, now, transport, drawQueue, audioVars, inputVars, midiVars,
                   backendVars, padVars>>

\* play(): dispose the old sequence, precompute the cache, create and start a sequence,
\* start the transport
\* a sequence that is dropped without being disposed
disposeNever(live, seq) == live

\* if (this.sequence) this.sequence.dispose(): the sequences that stay live
dispose(live, seq) == IF seq # "null" THEN live - 1 ELSE live

play ==
    /\ stepPlaybackCache' = precomputeStepPlayback(pattern)
    /\ sequence' = "live"
    /\ liveSequences' = dispose(liveSequences, sequence) + 1
    /\ transport' = [transport EXCEPT !.state = "started"]
    /\ playbackState' = [playbackState EXCEPT !.isPlaying = TRUE]
    /\ UNCHANGED <<pattern, selectedTrack, selectedStep, updateQueue, isUpdating,
                   rafScheduled, lastUpdateTime, now, drawQueue, audioVars, inputVars,
                   midiVars, backendVars, padVars>>

\* stop(): dispose the sequence, stop the transport (which rewinds it), clear the caches
stop ==
    /\ sequence' = "null"
    /\ liveSequences' = dispose(liveSequences, sequence)
    /\ transport' = [transport EXCEPT !.state = "stopped", !.position = 0]
    /\ playbackState' = [playbackState EXCEPT !.isPlaying = FALSE, !.currentStep = 0]
    /\ stepPlaybackCache' = [k \in {} |-> <<>>]
    /\ updateQueue' = <<>>
    /\ UNCHANGED <<pattern, selectedTrack, selectedStep, isUpdating, rafScheduled,
                   lastUpdateTime, now, drawQueue, audioVars, inputVars, midiVars,
                   backendVars, padVars>>

\* the callback of the Tone.Sequence for the next step of the transport; rp and rh
\* are the values of Math.random() for the probability check and for humanize
stepCallback(rp, rh) ==
    /\ sequence = "live"
    /\ transport.state = "started"
    /\ transport.position < MaxSteps
    /\ Len(drawQueue) < MaxDraw
    /\ LET step == transport.position
       IN  /\ drawQueue' = Append(drawQueue, step)
           /\ transport' = [transport EXCEPT !.position = (step + 1) % PatternLength]
    /\ UNCHANGED <<pattern, playbackState, selectedTrack, selectedStep, stepPlaybackCache,
                   updateQueue, isUpdating, rafScheduled, lastUpdateTime, sequence,
                   liveSequences, now, audioVars, inputVars, midiVars, backendVars, padVars>>

\* what stepCallback(rp, rh) plays: the playPadWithEffects calls of playStepOptimized,
\* and beside them the calls playStep would make in the same state
observeFire(rp, rh) ==
    lastFire' = [step |-> transport.position,
                 optimized |-> playStepOptimized(stepPlaybackCache, pattern,
                                                 transport.position, rp, rh),
                 plain |-> playStep(pattern, transport.position, rp, rh)]

\* the callback given to Tone.Draw.schedule
drawCallback ==
    /\ drawQueue # <<>>
    /\ playbackState' = [playbackState EXCEPT !.currentStep = Head(drawQueue)]
    /\ drawQueue' = Tail(drawQueue)
    /\ UNCHANGED <<pattern, selectedTrack, selectedStep, stepPlaybackCache, updateQueue,
                   isUpdating, rafScheduled, lastUpdateTime, sequence, liveSequences, now,
                   transport, audioVars, inputVars, midiVars, backendVars, padVars>>

\* setBPM(bpm): Tone's Param takes only a finite value and throws on any other, which
\* ends the handler before it updates the playback state
setBPM(bpm) ==
    IF clampBPM(bpm) = NaN
    THEN /\ UNCHANGED transport
         /\ UNCHANGED <<pattern, playbackState, selectedTrack, selectedStep,
                        stepPlaybackCache, updateQueue, isUpdating, rafScheduled,
                        lastUpdateTime, sequence, liveSequences, now, drawQueue, audioVars,
                        inputVars, midiVars, backendVars, padVars>>
    ELSE /\ transport' = [transport EXCEPT !.bpm = clampBPM(bpm)]
         /\ playbackState' = [playbackState EXCEPT !.bpm = clampBPM(bpm)]
         /\ UNCHANGED <<pattern, selectedTrack, selectedStep, stepPlaybackCache,
                        updateQueue, isUpdating, rafScheduled, lastUpdateTime, sequence,
                        liveSequences, now, drawQueue, audioVars, inputVars, midiVars,
                        backendVars, padVars>>

selectTrack(trackId) ==
    /\ selectedTrack' = trackId
    /\ pattern' = [pattern EXCEPT !.tracks = [i \in DOMAIN pattern.tracks |->
            [pattern.tracks[i] EXCEPT !.isSelected = (pattern.tracks[i].id = trackId)]]]
    /\ UNCHANGED <<playbackState, selectedStep, stepPlaybackCache, updateQueue, isUpdating,
                   rafScheduled, lastUpdateTime, sequence, liveSequences, now, transport,
                   drawQueue, audioVars, inputVars, midiVars, backendVars, padVars>>

selectStep(stepIndex) ==
    /\ selectedStep' = stepIndex
    /\ UNCHANGED <<pattern, playbackState, selectedTrack, stepPlaybackCache, updateQueue,
                   isUpdating, rafScheduled, lastUpdateTime, sequence, liveSequences, now,
                   transport, drawQueue, audioVars, inputVars, midiVars, backendVars,
                   padVars>>

toggleMute(trackId) ==
    /\ pattern' = [pattern EXCEPT !.tracks = [i \in DOMAIN pattern.tracks |->
            IF pattern.tracks[i].id = trackId
            THEN [pattern.tracks[i] EXCEPT !.mute = ~pattern.tracks[i].mute]
            ELSE pattern.tracks[i]]]
    /\ stepPlaybackCache' = precomputeStepPlayback(pattern')
    /\ UNCHANGED <<playbackState, selectedTrack, selectedStep, updateQueue, isUpdating,
                   rafScheduled, lastUpdateTime, sequence, liveSequences, now, transport,
                   drawQueue, audioVars, inputVars, midiVars, backendVars, padVars>>

toggleSolo(trackId) ==
    /\ pattern' = [pattern EXCEPT !.tracks = [i \in DOMAIN pattern.tracks |->
            IF pattern.tracks[i].id = trackId
            THEN [pattern.tracks[i] EXCEPT !.solo = ~pattern.tracks[i].solo]
            ELSE pattern.tracks[i]]]
    /\ stepPlaybackCache' = precomputeStepPlayback(pattern')
    /\ UNCHANGED <<playbackState, selectedTrack, selectedStep, updateQueue, isUpdating,
                   rafScheduled, lastUpdateTime, sequence, liveSequences, now, transport,
                   drawQueue, audioVars, inputVars, midiVars, backendVars, padVars>>

\* time passes
tick(ms) ==
    /\ now + ms <= MaxClock
    /\ now' = now + ms
    /\ UNCHANGED <<pattern, playbackState, selectedTrack, selectedStep, stepPlaybackCache,
                   updateQueue, isUpdating, rafScheduled, lastUpdateTime, sequence,
                   liveSequences, transport, drawQueue, audioVars, inputVars, midiVars,
                   backendVars, padVars>>
----------------------------------------------------------------------------
(* AudioService: the transport *)

AudioInit ==
    /\ isInitialized = FALSE
    /\ initPending = 0
    /\ audioPlaying = FALSE
    /\ helperOut = [stepIndex |-> 0, swingAmount |-> Num(0), humanizeAmount |-> Num(0),
                    swing |-> Num(0), humanize |-> Num(0)]

\* initialize() up to its await of Tone.start()
initialize ==
    /\ ~isInitialized
    /\ initPending < MaxInit
    /\ initPending' = initPending + 1
    /\ UNCHANGED <<pattern, playbackState, selectedTrack, selectedStep, stepPlaybackCache,
                   updateQueue, isUpdating, rafScheduled, lastUpdateTime, sequence,
                   liveSequences, now, transport, drawQueue, isInitialized, audioPlaying,
                   helperOut, inputVars, midiVars, backendVars, padVars>>

\* initialize() after Tone.start() has resolved
initializeResumes ==
    /\ initPending > 0
    /\ initPending' = initPending - 1
    /\ transport' = [transport EXCEPT !.bpm = Num(DefaultBpm)]
    /\ isInitialized' = TRUE
    /\ UNCHANGED <<pattern, playbackState, selectedTrack, selectedStep, stepPlaybackCache,
                   updateQueue, isUpdating, rafScheduled, lastUpdateTime, sequence,
                   liveSequences, now, drawQueue, audioPlaying, helperOut, inputVars,
                   midiVars, backendVars, padVars>>

\* initialize() after Tone.start() has rejected: the catch only logs
initializeFails ==
    /\ initPending > 0
    /\ initPending' = initPending - 1
    /\ UNCHANGED <<pattern, playbackState, selectedTrack, selectedStep, stepPlaybackCache,
                   updateQueue, isUpdating, rafScheduled, lastUpdateTime, sequence,
                   liveSequences, now, transport, drawQueue, isInitialized, audioPlaying,
                   helperOut, inputVars, midiVars, backendVars, padVars>>

\* AudioService.setBPM(bpm)
audioSetBPM(bpm) ==
    /\ transport' = IF Ge(bpm, Num(MinBpm)) /\ Le(bpm, Num(MaxBpm))
                    THEN [transport EXCEPT !.bpm = bpm]
                    ELSE transport
    /\ UNCHANGED <<pattern, playbackState, selectedTrack, selectedStep, stepPlaybackCache,
                   updateQueue, isUpdating, rafScheduled, lastUpdateTime, sequence,
                   liveSequences, now, drawQueue, audioVars, inputVars, midiVars,
                   backendVars, padVars>>

startSequencer ==
    /\ transport' = [transport EXCEPT !.state = "started"]
    /\ audioPlaying' = TRUE
    /\ UNCHANGED <<pattern, playbackState, selectedTrack, selectedStep, stepPlaybackCache,
                   updateQueue, isUpdating, rafScheduled, lastUpdateTime, sequence,
                   liveSequences, now, drawQueue, isInitialized, initPending, helperOut,
                   inputVars, midiVars, backendVars, padVars>>

stopSequencer ==
    /\ transport' = [transport EXCEPT !.state = "stopped", !.position = 0]
    /\ audioPlaying' = FALSE
    /\ UNCHANGED <<pattern, playbackState, selectedTrack, selectedStep, stepPlaybackCache,
                   updateQueue, isUpdating, rafScheduled, lastUpdateTime, sequence,
                   liveSequences, now, drawQueue, isInitialized, initPending, helperOut,
                   inputVars, midiVars, backendVars, padVars>>

togglePlayback == IF audioPlaying THEN stopSequencer ELSE startSequencer

\* applySwing and applyHumanize on a base time of 0, with Math.random() = r / RandRes
timingHelpers(stepIndex, swingAmount, humanizeAmount, r) ==
    /\ helperOut' = [stepIndex |-> stepIndex, swingAmount |-> swingAmount,
                     humanizeAmount |-> humanizeAmount,
                     swing |-> applySwing(Num(0), stepIndex, swingAmount),
                     humanize |-> applyHumanize(Num(0), humanizeAmount, r)]
    /\ UNCHANGED <<pattern, playbackState, selectedTrack, selectedStep, stepPlaybackCache,
                   updateQueue, isUpdating, rafScheduled, lastUpdateTime, sequence,
                   liveSequences, now, transport, drawQueue, isInitialized, initPending,
                   audioPlaying, inputVars, midiVars, backendVars, padVars>>
----------------------------------------------------------------------------
(* AudioService: the pads and their samples; SamplerComponent *)

\* a volume x of the program is the integer x * VolumeUnit of the model
VolumeUnit == MaxVelocity * MaxPercent

Pads == 0..(NumPads - 1)

\* initializePlayers()
initializePlayers ==
    [p \in Pads |-> [isLoaded |-> FALSE, buffer |-> "null", player |-> "null",
                     sampleName |-> "null"]]

\* file.name.replace(/\.[^/.]+$/, ''): the name without its last dot and what follows
\* it, when that is at least one character and holds no dot and no slash
stripExtension(name) ==
    CASE name = "kick.wav"     -> "kick"
      [] name = "snare.mp3"    -> "snare"
      [] name = "loop.v2.wav"  -> "loop.v2"
      [] name = "README"       -> "README"
      [] name = "take1."       -> "take1."

\* pads that start at full volume
initializePadsLoud ==
    [i \in 1..NumPads |->
        [id |-> i - 1, isActive |-> FALSE, sample |-> "null",
         sampleName |-> "PAD " \o ToString(i), isLoaded |-> FALSE,
         volume |-> MaxPercent, pitch |-> 0, effects |-> <<>>]]

\* SamplerComponent.initializePads()
initializePads ==
    [i \in 1..NumPads |->
        [id |-> i - 1, isActive |-> FALSE, sample |-> "null",
         sampleName |-> "PAD " \o ToString(i), isLoaded |-> FALSE,
         volume |-> DefaultPadVolume, pitch |-> 0, effects |-> <<>>]]

\* SamplerComponent.initializePadControls()
initializePadControls ==
    [i \in 1..NumPads |-> [volume |-> DefaultPadVolume, pitch |-> 0, effects |-> <<>>]]

\* the fields of a SamplerComponent after its constructor
newSampler ==
    [pc |-> "created", pads |-> initializePads, isPlaying |-> FALSE,
     bpm |-> DefaultBpm, selectedPad |-> -1, padControls |-> initializePadControls]

PadInit ==
    /\ samplerComponent = "null"
    /\ midiPending = 0
    /\ midiListeners = 0
    /\ lastInput = [source |-> "none", data |-> <<>>, velocity |-> 0, triggers |-> <<>>,
                    plays |-> <<>>]
    /\ players = initializePlayers
    /\ loadingPromises = [p \in {} |-> 0]
    /\ loads = <<>>
    /\ loadCalls = <<>>
    /\ lastPlayTime = 0
    /\ sampler = [pc |-> "none"]

(* Playing a pad.  An operator works on env = [sampler, lastPlayTime, isInitialized,   *)
(* bpm, plays]: what a trigger reads and writes, and in plays the pads it made sound.  *)

\* the continuation of initialize() once Tone.start() has settled
afterToneStart(env, started) ==
    IF started THEN [env EXCEPT !.isInitialized = TRUE, !.bpm = Num(DefaultBpm)] ELSE env

\* AudioService.playPad(padIndex, volume), taken together with its continuation after
\* the await of initialize(), where started tells whether Tone.start() resolved
audioPlayPad(env, padIndex, volume, started) ==
    IF now - env.lastPlayTime < minPlayInterval
    THEN env
    ELSE LET e1 == [env EXCEPT !.lastPlayTime = now]
             e2 == IF e1.isInitialized THEN e1 ELSE afterToneStart(e1, started)
         IN  IF ~players[padIndex].isLoaded \/ players[padIndex].player = "null"
             THEN e2
             ELSE [e2 EXCEPT !.plays = Append(@, [pad |-> padIndex, volume |-> volume])]

\* SamplerComponent.playPad(padIndex)
samplerPlayPad(env, padIndex, started) ==
    LET e1 == [env EXCEPT !.sampler.selectedPad = padIndex,
                          !.sampler.pads[padIndex + 1].isActive = TRUE]
    IN  IF e1.sampler.pads[padIndex + 1].isLoaded
        THEN audioPlayPad(e1, padIndex,
                          (e1.sampler.pads[padIndex + 1].volume * VolumeUnit) \div MaxPercent,
                          started)
        ELSE e1

\* the volume triggerPad computes from its source and the MIDI velocity
triggerVolume(source, velocity) ==
    IF source = "MIDI" THEN (velocity * VolumeUnit) \div MaxVelocity ELSE VolumeUnit

\* this.samplerComponent && this.samplerComponent.playPad
registered(component) == component # "null"

\* InputService.triggerPad(padIndex, source, velocity)
triggerPad(env, padIndex, source, velocity, started) ==
    IF registered(samplerComponent)
    THEN samplerPlayPad(env, padIndex, started)
    ELSE audioPlayPad(env, padIndex, triggerVolume(source, velocity), started)

RECURSIVE triggerPads(_, _, _, _, _)
\* the triggerPad calls of one event, in their order
triggerPads(env, pads, source, velocity, started) ==
    IF pads = <<>>
    THEN env
    ELSE triggerPads(triggerPad(env, Head(pads), source, velocity, started),
                     Tail(pads), source, velocity, started)

\* what a trigger reads and writes, before an event
triggerEnv ==
    [sampler |-> sampler, lastPlayTime |-> lastPlayTime, isInitialized |-> isInitialized,
     bpm |-> transport.bpm, plays |-> <<>>]

\* an event has made the triggerPad calls of pads: the state after them
triggered(pads, source, data, velocity, heard) ==
    \E started \in BOOLEAN :
        LET env == triggerPads(triggerEnv, pads, source, velocity, started)
        IN  /\ sampler' = env.sampler
            /\ lastPlayTime' = env.lastPlayTime
            /\ isInitialized' = env.isInitialized
            /\ transport' = [transport EXCEPT !.bpm = env.bpm]
            /\ lastInput' = IF heard
                            THEN [source |-> source, data |-> data, velocity |-> velocity,
                                  triggers |-> pads, plays |-> env.plays]
                            ELSE lastInput
----------------------------------------------------------------------------
(* InputService: the keyboard *)

qwertyMapping ==
    << [key |-> "q", padIndex |-> 0],  [key |-> "w", padIndex |-> 1],
       [key |-> "e", padIndex |-> 2],  [key |-> "r", padIndex |-> 3],
       [key |-> "t", padIndex |-> 4],  [key |-> "y", padIndex |-> 5],
       [key |-> "u", padIndex |-> 6],  [key |-> "i", padIndex |-> 7],
       [key |-> "a", padIndex |-> 8],  [key |-> "s", padIndex |-> 9],
       [key |-> "d", padIndex |-> 10], [key |-> "f", padIndex |-> 11],
       [key |-> "g", padIndex |-> 12], [key |-> "h", padIndex |-> 13],
       [key |-> "j", padIndex |-> 14], [key |-> "k", padIndex |-> 15] >>

numberMapping ==
    << [key |-> "1", padIndex |-> 0],  [key |-> "2", padIndex |-> 1],
       [key |-> "3", padIndex |-> 2],  [key |-> "4", padIndex |-> 3],
       [key |-> "5", padIndex |-> 4],  [key |-> "6", padIndex |-> 5],
       [key |-> "7", padIndex |-> 6],  [key |-> "8", padIndex |-> 7],
       [key |-> "9", padIndex |-> 8],  [key |-> "0", padIndex |-> 9],
       [key |-> "!", padIndex |-> 10], [key |-> "@", padIndex |-> 11],
       [key |-> "#", padIndex |-> 12], [key |-> "$", padIndex |-> 13],
       [key |-> "%", padIndex |-> 14], [key |-> "^", padIndex |-> 15] >>

\* mapping.find(m => m.key === key): the pad of the first match, or -1
findPad(mapping, key) ==
    LET hits == { i \in DOMAIN mapping : mapping[i].key = key }
    IN  IF hits = {}
        THEN -1
        ELSE mapping[CHOOSE i \in hits : \A j \in hits : i <= j].padIndex

\* the keys of a US keyboard: the KeyboardEvent.code of a physical key, its event.key
\* and its event.key while Shift is held; first the letters
letterKeys ==
    << [code |-> "KeyQ", key |-> "q", shifted |-> "Q"],
       [code |-> "KeyW", key |-> "w", shifted |-> "W"],
       [code |-> "KeyE", key |-> "e", shifted |-> "E"],
       [code |-> "KeyR", key |-> "r", shifted |-> "R"],
       [code |-> "KeyT", key |-> "t", shifted |-> "T"],
       [code |-> "KeyY", key |-> "y", shifted |-> "Y"],
       [code |-> "KeyU", key |-> "u", shifted |-> "U"],
       [code |-> "KeyI", key |-> "i", shifted |-> "I"],
       [code |-> "KeyO", key |-> "o", shifted |-> "O"],
       [code |-> "KeyA", key |-> "a", shifted |-> "A"],
       [code |-> "KeyS", key |-> "s", shifted |-> "S"],
       [code |-> "KeyD", key |-> "d", shifted |-> "D"],
       [code |-> "KeyF", key |-> "f", shifted |-> "F"],
       [code |-> "KeyG", key |-> "g", shifted |-> "G"],
       [code |-> "KeyH", key |-> "h", shifted |-> "H"],
       [code |-> "KeyJ", key |-> "j", shifted |-> "J"],
       [code |-> "KeyK", key |-> "k", shifted |-> "K"],
       [code |-> "KeyL", key |-> "l", shifted |-> "L"],
       [code |-> "KeyZ", key |-> "z", shifted |-> "Z"] >>

otherKeys ==
    << [code |-> "Digit1", key |-> "1", shifted |-> "!"],
       [code |-> "Digit2", key |-> "2", shifted |-> "@"],
       [code |-> "Digit3", key |-> "3", shifted |-> "#"],
       [code |-> "Digit4", key |-> "4", shifted |-> "$"],
       [code |-> "Digit5", key |-> "5", shifted |-> "%"],
       [code |-> "Digit6", key |-> "6", shifted |-> "^"],
       [code |-> "Digit7", key |-> "7", shifted |-> "&"],
       [code |-> "Digit8", key |-> "8", shifted |-> "*"],
       [code |-> "Digit9", key |-> "9", shifted |-> "("],
       [code |-> "Digit0", key |-> "0", shifted |-> ")"],
       [code |-> "Minus", key |-> "-", shifted |-> "_"],
       [code |-> "Space", key |-> " ", shifted |-> " "],
       [code |-> "Enter", key |-> "Enter", shifted |-> "Enter"],
       [code |-> "Escape", key |-> "Escape", shifted |-> "Escape"],
       [code |-> "ShiftLeft", key |-> "Shift", shifted |-> "Shift"] >>

keyboard == letterKeys \o otherKeys

\* event.key of a physical key (a KeyboardEvent.code) on a US layout
eventKey(code, shift) ==
    LET k == CHOOSE i \in DOMAIN keyboard : keyboard[i].code = code
    IN  IF shift THEN keyboard[k].shifted ELSE keyboard[k].key

\* a handler that takes event.key as it is
toLowerCaseNone(str) == str

\* String.prototype.toLowerCase on the values of event.key: a capital letter becomes
\* its small letter, a key name is written small, every other character stays
toLowerCase(str) ==
    LET capitals == { i \in DOMAIN letterKeys : letterKeys[i].shifted = str }
    IN  CASE capitals # {}  -> letterKeys[CHOOSE i \in capitals : TRUE].key
          [] str = "Escape" -> "escape"
          [] str = "Enter"  -> "enter"
          [] str = "Shift"  -> "shift"
          [] OTHER          -> str

\* handleKeyDown(event) on st = [pressed, pads, special]: pads collects the
\* triggerPad calls, special the togglePlayback or stopAllPads call
handleKeyDown(st, evKey) ==
    LET key == toLowerCase(evKey)
    IN  IF key \in st.pressed
        THEN st
        ELSE LET pressed == st.pressed \cup {key}
                 qwertyPad == findPad(qwertyMapping, key)
                 numberPad == findPad(numberMapping, evKey)
             IN  IF qwertyPad # -1
                 THEN [st EXCEPT !.pressed = pressed, !.pads = Append(@, qwertyPad)]
                 ELSE IF numberPad # -1
                 THEN [st EXCEPT !.pressed = pressed, !.pads = Append(@, numberPad)]
                 ELSE IF key = " "
                 THEN [st EXCEPT !.pressed = pressed, !.special = Append(@, "togglePlayback")]
                 ELSE IF key = "escape"
                 THEN [st EXCEPT !.pressed = pressed, !.special = Append(@, "stopAllPads")]
                 ELSE [st EXCEPT !.pressed = pressed]

\* handleKeyUp(event)
handleKeyUp(pressed, evKey) == pressed \ {toLowerCase(evKey)}

RECURSIVE dispatchKeyDown(_, _, _)
\* a keydown event goes to every registered listener in turn
dispatchKeyDown(n, st, evKey) ==
    IF n = 0 THEN st ELSE dispatchKeyDown(n - 1, handleKeyDown(st, evKey), evKey)

InputInit ==
    /\ isListening = FALSE
    /\ listeners = 0
    /\ pressedKeys = {}
    /\ keysHeld = [c \in {} |-> {}]
    /\ lastKey = [type |-> "none", code |-> "", key |-> "", repeat |-> FALSE,
                  heard |-> FALSE, pads |-> <<>>, special |-> <<>>, before |-> {}]

startListening ==
    /\ ~isListening
    /\ listeners < MaxListeners
    /\ isListening' = TRUE
    /\ listeners' = listeners + 1
    /\ midiPending' = midiPending + 1
    /\ UNCHANGED <<pattern, playbackState, selectedTrack, selectedStep, stepPlaybackCache,
                   updateQueue, isUpdating, rafScheduled, lastUpdateTime, sequence,
                   liveSequences, now, transport, drawQueue, audioVars, pressedKeys,
                   keysHeld, lastKey, samplerComponent, midiListeners, lastInput,
                   backendVars, padVars>>

\* removeEventListener is given a new function, this.handleKeyDown.bind(this),
\* which is no registered listener: it removes nothing
stopListening ==
    /\ isListening' = FALSE
    /\ UNCHANGED <<pattern, playbackState, selectedTrack, selectedStep, stepPlaybackCache,
                   updateQueue, isUpdating, rafScheduled, lastUpdateTime, sequence,
                   liveSequences, now, transport, drawQueue, audioVars, listeners,
                   pressedKeys, keysHeld, lastKey, midiVars, backendVars, padVars>>

shiftHeld == "ShiftLeft" \in DOMAIN keysHeld

\* the source handleKeyDown names in its triggerPad call; the velocity is the default
keySource(evKey) ==
    IF findPad(qwertyMapping, toLowerCase(evKey)) # -1 THEN "QWERTY" ELSE "NUMBER"

\* setSamplerComponent(component)
setSamplerComponent(component) ==
    /\ samplerComponent' = component
    /\ UNCHANGED <<pattern, playbackState, selectedTrack, selectedStep, stepPlaybackCache,
                   updateQueue, isUpdating, rafScheduled, lastUpdateTime, sequence,
                   liveSequences, now, transport, drawQueue, audioVars, inputVars,
                   midiPending, midiListeners, lastInput, backendVars, padVars>>

\* requestMIDIAccess() resolves: initializeMIDI() adds a midimessage listener to the
\* MIDI input that is connected
midiAccessGranted ==
    /\ midiPending > 0
    /\ midiPending' = midiPending - 1
    /\ midiListeners' = midiListeners + 1
    /\ UNCHANGED <<pattern, playbackState, selectedTrack, selectedStep, stepPlaybackCache,
                   updateQueue, isUpdating, rafScheduled, lastUpdateTime, sequence,
                   liveSequences, now, transport, drawQueue, audioVars, inputVars,
                   samplerComponent, lastInput, backendVars, padVars>>

\* requestMIDIAccess() rejects: the catch only logs
midiAccessDenied ==
    /\ midiPending > 0
    /\ midiPending' = midiPending - 1
    /\ UNCHANGED <<pattern, playbackState, selectedTrack, selectedStep, stepPlaybackCache,
                   updateQueue, isUpdating, rafScheduled, lastUpdateTime, sequence,
                   liveSequences, now, transport, drawQueue, audioVars, inputVars,
                   samplerComponent, midiListeners, lastInput, backendVars, padVars>>

\* a handler that takes every Note On, whatever its velocity
handleMIDIMessageAll(status, note, velocity) ==
    IF status >= NoteOnFirst /\ status <= NoteOnLast
    THEN LET padIndex == note - FirstMidiNote
         IN  IF padIndex >= 0 /\ padIndex < NumPads THEN <<padIndex>> ELSE <<>>
    ELSE <<>>

\* handleMIDIMessage(event) with event.data = [status, note, velocity]: the pads of its
\* triggerPad calls
handleMIDIMessage(status, note, velocity) ==
    IF status >= NoteOnFirst /\ status <= NoteOnLast /\ velocity > 0
    THEN LET padIndex == note - FirstMidiNote
         IN  IF padIndex >= 0 /\ padIndex < NumPads THEN <<padIndex>> ELSE <<>>
    ELSE <<>>

RECURSIVE dispatchMIDI(_, _)
\* a midimessage event goes to every registered listener in turn
dispatchMIDI(n, pads) ==
    IF n = 0 THEN <<>> ELSE pads \o dispatchMIDI(n - 1, pads)

\* the MIDI input sends a message
midiMessage(status, note, velocity) ==
    /\ triggered(dispatchMIDI(midiListeners, handleMIDIMessage(status, note, velocity)),
                 "MIDI", <<status, note, velocity>>, velocity, midiListeners > 0)
    /\ UNCHANGED <<pattern, playbackState, selectedTrack, selectedStep, stepPlaybackCache,
                   updateQueue, isUpdating, rafScheduled, lastUpdateTime, sequence,
                   liveSequences, now, drawQueue, initPending, audioPlaying, helperOut,
                   inputVars, samplerComponent, midiPending, midiListeners, backendVars,
                   players, loadingPromises, loads, loadCalls>>

\* the effect of the togglePlayback calls of a keydown event on the AudioService
afterSpecial(special) ==
    IF special = <<>> \/ special[1] # "togglePlayback"
    THEN UNCHANGED <<transport, audioPlaying>>
    ELSE /\ audioPlaying' = ~audioPlaying
         /\ transport' = IF audioPlaying
                         THEN [transport EXCEPT !.state = "stopped", !.position = 0]
                         ELSE [transport EXCEPT !.state = "started"]

\* a keydown event of the physical key code, dispatched to the listeners;
\* keysHeld keeps, for each held key, the pads triggered since it went down
keyDown(code, repeat) ==
    /\ LET evKey  == eventKey(code, shiftHeld)
           st     == dispatchKeyDown(listeners,
                        [pressed |-> pressedKeys, pads |-> <<>>, special |-> <<>>], evKey)
           before == IF repeat THEN keysHeld[code] ELSE {}
           fired  == { st.pads[i] : i \in DOMAIN st.pads }
       IN  /\ pressedKeys' = st.pressed
           /\ keysHeld' = [c \in DOMAIN keysHeld \cup {code} |->
                             IF c = code THEN before \cup fired ELSE keysHeld[c]]
           /\ lastKey' = [type |-> "keydown", code |-> code, key |-> evKey,
                          repeat |-> repeat, heard |-> listeners > 0, pads |-> st.pads,
                          special |-> st.special, before |-> before]
           /\ IF st.pads = <<>>
              THEN /\ afterSpecial(st.special)
                   /\ lastInput' = IF listeners > 0
                                   THEN [source |-> keySource(evKey), data |-> <<>>,
                                         velocity |-> MaxVelocity,
                                         triggers |-> <<>>, plays |-> <<>>]
                                   ELSE lastInput
                   /\ UNCHANGED <<sampler, lastPlayTime, isInitialized>>
              ELSE /\ triggered(st.pads, keySource(evKey), <<>>, MaxVelocity, TRUE)
                   /\ UNCHANGED audioPlaying
    /\ UNCHANGED <<pattern, playbackState, selectedTrack, selectedStep, stepPlaybackCache,
                   updateQueue, isUpdating, rafScheduled, lastUpdateTime, sequence,
                   liveSequences, now, drawQueue, initPending, helperOut, isListening,
                   listeners, samplerComponent, midiPending, midiListeners, backendVars,
                   players, loadingPromises, loads, loadCalls>>

\* the keyup event of the physical key code
keyUp(code) ==
    /\ code \in DOMAIN keysHeld
    /\ LET evKey == eventKey(code, shiftHeld)
       IN  /\ pressedKeys' = IF listeners > 0 THEN handleKeyUp(pressedKeys, evKey)
                             ELSE pressedKeys
           /\ lastKey' = [type |-> "keyup", code |-> code, key |-> evKey, repeat |-> FALSE,
                          heard |-> listeners > 0, pads |-> <<>>, special |-> <<>>,
                          before |-> keysHeld[code]]
    /\ keysHeld' = [c \in DOMAIN keysHeld \ {code} |-> keysHeld[c]]
    /\ lastInput' = IF listeners > 0
                    THEN [source |-> "none", data |-> <<>>, velocity |-> 0,
                          triggers |-> <<>>, plays |-> <<>>]
                    ELSE lastInput
    /\ UNCHANGED <<pattern, playbackState, selectedTrack, selectedStep, stepPlaybackCache,
                   updateQueue, isUpdating, rafScheduled, lastUpdateTime, sequence,
                   liveSequences, now, transport, drawQueue, audioVars, isListening,
                   listeners, samplerComponent, midiPending, midiListeners, backendVars,
                   padVars>>

\* the user presses a key that is up
keyPress(code) ==
    /\ code \notin DOMAIN keysHeld
    /\ keyDown(code, FALSE)

\* the keyboard repeats a key that is held down
keyRepeat(code) ==
    /\ code \in DOMAIN keysHeld
    /\ keyDown(code, TRUE)
----------------------------------------------------------------------------
(* Loading a file to a pad, and the life of the SamplerComponent *)

\* a load that is never taken for already running
hasNever(promises, padIndex) == FALSE

\* this.loadingPromises.has(padIndex)
has(promises, padIndex) == padIndex \in DOMAIN promises

\* loadSampleToPad(padIndex, audioUrl) up to its await, on ld = [loads, promises]: the
\* call waits for the load of the pad that is in flight or starts one, which itself
\* waits for initialize() or for the player to load the file
loadSampleToPad(ld, padIndex, file, initialized) ==
    IF has(ld.promises, padIndex)
    THEN [ld EXCEPT !.joined = ld.promises[padIndex]]
    ELSE LET load == [pad |-> padIndex, file |-> file,
                      state |-> IF initialized THEN "loading" ELSE "initialize",
                      result |-> FALSE]
             k == Len(ld.loads) + 1
         IN  [loads |-> Append(ld.loads, load),
              promises |-> [p \in DOMAIN ld.promises \cup {padIndex} |->
                              IF p = padIndex THEN k ELSE ld.promises[p]],
              joined |-> k]

\* loadSampleFromFile(padIndex, file) from its call of loadSampleToPad on
enterLoad(padIndex, file, initialized) ==
    LET ld == loadSampleToPad([loads |-> loads, promises |-> loadingPromises, joined |-> 0],
                              padIndex, file, initialized)
    IN  /\ loads' = ld.loads
        /\ loadingPromises' = ld.promises
        /\ loadCalls' = Append(loadCalls, [pad |-> padIndex, file |-> file, pc |-> "load",
                                           load |-> ld.joined, result |-> FALSE,
                                           buffer |-> "null", sampleName |-> "null"])

\* SamplerComponent.loadFileToEmptyPad(file, padIndex) up to the first await of
\* AudioService.loadSampleFromFile(padIndex, file)
loadFileToEmptyPad(file, padIndex) ==
    /\ sampler.pc # "none"
    /\ Len(loadCalls) < MaxLoads
    /\ IF isInitialized
       THEN enterLoad(padIndex, file, TRUE)
       ELSE /\ loadCalls' = Append(loadCalls, [pad |-> padIndex, file |-> file,
                                               pc |-> "initialize", load |-> 0,
                                               result |-> FALSE, buffer |-> "null",
                                               sampleName |-> "null"])
            /\ UNCHANGED <<loads, loadingPromises>>
    /\ UNCHANGED <<pattern, playbackState, selectedTrack, selectedStep, stepPlaybackCache,
                   updateQueue, isUpdating, rafScheduled, lastUpdateTime, sequence,
                   liveSequences, now, transport, drawQueue, audioVars, inputVars, midiVars,
                   backendVars, players, lastPlayTime, sampler>>

\* Tone.start() settles for the initialize() that call i of loadSampleFromFile awaits:
\* initialize() finishes and the call goes on into loadSampleToPad
loadCallInitialized(i, started) ==
    /\ i \in DOMAIN loadCalls
    /\ loadCalls[i].pc = "initialize"
    /\ isInitialized' = (isInitialized \/ started)
    /\ transport' = IF started THEN [transport EXCEPT !.bpm = Num(DefaultBpm)] ELSE transport
    /\ LET ld == loadSampleToPad([loads |-> loads, promises |-> loadingPromises,
                                  joined |-> 0],
                                 loadCalls[i].pad, loadCalls[i].file, isInitialized')
       IN  /\ loads' = ld.loads
           /\ loadingPromises' = ld.promises
           /\ loadCalls' = [loadCalls EXCEPT ![i].pc = "load", ![i].load = ld.joined]
    /\ UNCHANGED <<pattern, playbackState, selectedTrack, selectedStep, stepPlaybackCache,
                   updateQueue, isUpdating, rafScheduled, lastUpdateTime, sequence,
                   liveSequences, now, drawQueue, initPending, audioPlaying, helperOut,
                   inputVars, midiVars, backendVars, players, lastPlayTime, sampler>>

\* Tone.start() settles for the initialize() that load k awaits: loadSampleOptimized
\* goes on to player.load(audioUrl)
loadInitialized(k, started) ==
    /\ k \in DOMAIN loads
    /\ loads[k].state = "initialize"
    /\ isInitialized' = (isInitialized \/ started)
    /\ transport' = IF started THEN [transport EXCEPT !.bpm = Num(DefaultBpm)] ELSE transport
    /\ loads' = [loads EXCEPT ![k].state = "loading"]
    /\ UNCHANGED <<pattern, playbackState, selectedTrack, selectedStep, stepPlaybackCache,
                   updateQueue, isUpdating, rafScheduled, lastUpdateTime, sequence,
                   liveSequences, now, drawQueue, initPending, audioPlaying, helperOut,
                   inputVars, midiVars, backendVars, players, loadingPromises, loadCalls,
                   lastPlayTime, sampler>>

\* the rest of loadSampleOptimized when player.load(audioUrl) has settled
loadedPlayers(pl, padIndex, file, ok) ==
    IF ok
    THEN [pl EXCEPT ![padIndex].player = file, ![padIndex].buffer = file,
                    ![padIndex].isLoaded = TRUE]
    ELSE pl

\* the finally of loadSampleToPad in the call that started the load
withoutPromise(promises, padIndex) ==
    [p \in DOMAIN promises \ {padIndex} |-> promises[p]]

\* the loadSampleFromFile calls that wait for load k, in the order they were made
waiting(k) == { i \in DOMAIN loadCalls : loadCalls[i].pc = "load" /\ loadCalls[i].load = k }

RECURSIVE resolveCalls(_, _, _)
\* the continuations of the calls in is, lowest first, on st = [players, calls, sampler]:
\* loadSampleFromFile names the sample and loadFileToEmptyPad marks the pad
resolveCalls(st, is, ok) ==
    IF is = {}
    THEN st
    ELSE LET i    == CHOOSE j \in is : \A l \in is : j <= l
             c    == st.calls[i]
             name == stripExtension(c.file)
             pl   == IF ok THEN [st.players EXCEPT ![c.pad].sampleName = name]
                     ELSE st.players
             sm   == IF ok
                     THEN [st.sampler EXCEPT !.pads[c.pad + 1].isLoaded = TRUE,
                                             !.pads[c.pad + 1].sample = c.file,
                                             !.pads[c.pad + 1].sampleName = name,
                                             !.selectedPad = c.pad]
                     ELSE st.sampler
             cs   == [st.calls EXCEPT ![i].pc = "done", ![i].result = ok,
                                      ![i].buffer = pl[c.pad].buffer,
                                      ![i].sampleName = pl[c.pad].sampleName]
         IN  resolveCalls([players |-> pl, calls |-> cs, sampler |-> sm], is \ {i}, ok)

\* player.load(audioUrl) of load k settles, with the file loaded or not; the calls that
\* await the load go on in the same turn of the event loop, the one that started the
\* load first
loadSettles(k, ok) ==
    /\ k \in DOMAIN loads
    /\ loads[k].state = "loading"
    /\ loads' = [loads EXCEPT ![k].state = "settled", ![k].result = ok]
    /\ loadingPromises' = withoutPromise(loadingPromises, loads[k].pad)
    /\ LET st == resolveCalls([players |-> loadedPlayers(players, loads[k].pad,
                                                         loads[k].file, ok),
                               calls |-> loadCalls, sampler |-> sampler],
                              waiting(k), ok)
       IN  /\ players' = st.players
           /\ loadCalls' = st.calls
           /\ sampler' = st.sampler
    /\ UNCHANGED <<pattern, playbackState, selectedTrack, selectedStep, stepPlaybackCache,
                   updateQueue, isUpdating, rafScheduled, lastUpdateTime, sequence,
                   liveSequences, now, transport, drawQueue, audioVars, inputVars, midiVars,
                   backendVars, lastPlayTime>>

\* the constructor of SamplerComponent; one visit of the sampler page is followed
createSampler ==
    /\ sampler.pc = "none"
    /\ sampler' = newSampler
    /\ UNCHANGED <<pattern, playbackState, selectedTrack, selectedStep, stepPlaybackCache,
                   updateQueue, isUpdating, rafScheduled, lastUpdateTime, sequence,
                   liveSequences, now, transport, drawQueue, audioVars, inputVars, midiVars,
                   backendVars, players, loadingPromises, loads, loadCalls, lastPlayTime>>

\* ngOnInit() up to its await of audioService.initialize(), or to its end when the
\* audio is initialized already
ngOnInit ==
    /\ sampler.pc # "none"
    /\ sampler.pc = "created"
    /\ IF isInitialized
       THEN /\ sampler' = [sampler EXCEPT !.pc = "ready"]
            /\ samplerComponent' = "sampler"
            /\ IF isListening
               THEN UNCHANGED <<isListening, listeners, midiPending>>
               ELSE /\ isListening' = TRUE
                    /\ listeners' = listeners + 1
                    /\ midiPending' = midiPending + 1
       ELSE /\ sampler' = [sampler EXCEPT !.pc = "initializing"]
            /\ UNCHANGED <<samplerComponent, isListening, listeners, midiPending>>
    /\ UNCHANGED <<pattern, playbackState, selectedTrack, selectedStep, stepPlaybackCache,
                   updateQueue, isUpdating, rafScheduled, lastUpdateTime, sequence,
                   liveSequences, now, transport, drawQueue, audioVars, pressedKeys,
                   keysHeld, lastKey, midiListeners, lastInput, backendVars, players,
                   loadingPromises, loads, loadCalls, lastPlayTime>>

\* ngOnInit() after Tone.start() has settled: the component registers with the
\* InputService and starts listening, also when it was destroyed in between
ngOnInitResumes(started) ==
    /\ sampler.pc # "none"
    /\ sampler.pc \in {"initializing", "destroyed-initializing"}
    /\ isInitialized' = (isInitialized \/ started)
    /\ transport' = IF started THEN [transport EXCEPT !.bpm = Num(DefaultBpm)] ELSE transport
    /\ sampler' = [sampler EXCEPT !.pc = IF @ = "initializing" THEN "ready" ELSE "destroyed"]
    /\ samplerComponent' = "sampler"
    /\ IF isListening
       THEN UNCHANGED <<isListening, listeners, midiPending>>
       ELSE /\ isListening' = TRUE
            /\ listeners' = listeners + 1
            /\ midiPending' = midiPending + 1
    /\ UNCHANGED <<pattern, playbackState, selectedTrack, selectedStep, stepPlaybackCache,
                   updateQueue, isUpdating, rafScheduled, lastUpdateTime, sequence,
                   liveSequences, now, drawQueue, initPending, audioPlaying, helperOut,
                   pressedKeys, keysHeld, lastKey, midiListeners, lastInput, backendVars,
                   players, loadingPromises, loads, loadCalls, lastPlayTime>>

\* ngOnDestroy()
ngOnDestroy ==
    /\ sampler.pc # "none"
    /\ sampler.pc \in {"created", "initializing", "ready"}
    /\ sampler' = [sampler EXCEPT !.pc = IF @ = "initializing"
                                         THEN "destroyed-initializing" ELSE "destroyed"]
    /\ isListening' = FALSE
    /\ samplerComponent' = "null"
    /\ UNCHANGED <<pattern, playbackState, selectedTrack, selectedStep, stepPlaybackCache,
                   updateQueue, isUpdating, rafScheduled, lastUpdateTime, sequence,
                   liveSequences, now, transport, drawQueue, audioVars, listeners,
                   pressedKeys, keysHeld, lastKey, midiPending, midiListeners, lastInput,
                   backendVars, players, loadingPromises, loads, loadCalls, lastPlayTime>>

\* a click on a pad: SamplerComponent.playPad(padIndex)
clickPad(padIndex) ==
    /\ sampler.pc # "none"
    /\ \E started \in BOOLEAN :
          LET env == samplerPlayPad(triggerEnv, padIndex, started)
          IN  /\ sampler' = env.sampler
              /\ lastPlayTime' = env.lastPlayTime
              /\ isInitialized' = env.isInitialized
              /\ transport' = [transport EXCEPT !.bpm = env.bpm]
              /\ lastInput' = [source |-> "click", data |-> <<>>, velocity |-> MaxVelocity,
                               triggers |-> <<padIndex>>, plays |-> env.plays]
    /\ UNCHANGED <<pattern, playbackState, selectedTrack, selectedStep, stepPlaybackCache,
                   updateQueue, isUpdating, rafScheduled, lastUpdateTime, sequence,
                   liveSequences, now, drawQueue, initPending, audioPlaying, helperOut,
                   inputVars, samplerComponent, midiPending, midiListeners, backendVars,
                   players, loadingPromises, loads, loadCalls>>

\* the timer of playPad, 200 ms after it: the pad is shown idle again
padTimeout(padIndex) ==
    /\ sampler.pc # "none"
    /\ sampler.pads[padIndex + 1].isActive
    /\ sampler' = [sampler EXCEPT !.pads[padIndex + 1].isActive = FALSE]
    /\ UNCHANGED <<pattern, playbackState, selectedTrack, selectedStep, stepPlaybackCache,
                   updateQueue, isUpdating, rafScheduled, lastUpdateTime, sequence,
                   liveSequences, now, transport, drawQueue, audioVars, inputVars, midiVars,
                   backendVars, players, loadingPromises, loads, loadCalls, lastPlayTime>>

\* selectPad(padIndex)
selectPad(padIndex) ==
    /\ sampler.pc # "none"
    /\ sampler' = [sampler EXCEPT !.selectedPad = padIndex]
    /\ UNCHANGED <<pattern, playbackState, selectedTrack, selectedStep, stepPlaybackCache,
                   updateQueue, isUpdating, rafScheduled, lastUpdateTime, sequence,
                   liveSequences, now, transport, drawQueue, audioVars, inputVars, midiVars,
                   backendVars, players, loadingPromises, loads, loadCalls, lastPlayTime>>

\* setPadVolume(event) with event.target.value the text of newVolume
setPadVolume(newVolume) ==
    /\ sampler.pc # "none"
    /\ sampler.selectedPad # -1
    /\ sampler' = [sampler EXCEPT !.pads[sampler.selectedPad + 1].volume = newVolume]
    /\ UNCHANGED <<pattern, playbackState, selectedTrack, selectedStep, stepPlaybackCache,
                   updateQueue, isUpdating, rafScheduled, lastUpdateTime, sequence,
                   liveSequences, now, transport, drawQueue, audioVars, inputVars, midiVars,
                   backendVars, players, loadingPromises, loads, loadCalls, lastPlayTime>>
----------------------------------------------------------------------------
(* The backend: the Express application and its controllers *)

\* res.json(body): the response of a handler that did not throw
json(body) == [status |-> 200, body |-> body]

\* a handler that answers with the samples of one user, whoever asks
getUserSamplesFixed(req) == json([samples |-> <<>>, userId |-> "u1"])

\* audioController
uploadSample(req) == json([message |-> "Upload sample endpoint - Coming soon!"])

downloadFromUrl(req) == json([message |-> "Download from URL endpoint - Coming soon!"])

getUserSamples(req) == json([samples |-> <<>>, userId |-> req.params])

deleteSample(req) == json([message |-> "Sample " \o req.params \o " deleted"])

\* userController
register(req) == json([message |-> "User registration - Coming soon!"])

login(req) == json([message |-> "User login - Coming soon!"])

getProfile(req) == json([message |-> "User profile " \o req.params \o " - Coming soon!"])

\* the routes of the application outside the controllers; new Date().toISOString() is
\* the clock of the server
health(req) ==
    json([status |-> "OK", message |-> "VYNL Backend is running", timestamp |-> now,
          version |-> "1.0.0"])

root(req) ==
    json([message |-> "VYNL - Sample the Underground",
          description |-> "Where vinyl nostalgia meets digital innovation",
          status |-> "running"])

\* the routers: the handler of a request
route(req) ==
    CASE req.route = "POST /api/audio/upload"         -> uploadSample(req)
      [] req.route = "POST /api/audio/download"       -> downloadFromUrl(req)
      [] req.route = "GET /api/audio/samples/:userId" -> getUserSamples(req)
      [] req.route = "DELETE /api/audio/sample/:id"   -> deleteSample(req)
      [] req.route = "POST /api/users/register"       -> register(req)
      [] req.route = "POST /api/users/login"          -> login(req)
      [] req.route = "GET /api/users/profile/:id"     -> getProfile(req)
      [] req.route = "GET /health"                    -> health(req)
      [] req.route = "GET /"                          -> root(req)

BackendInit == exchanges = <<>>

\* the backend answers a request; body is what the client sent with it
request(routeName, params, body) ==
    /\ Len(exchanges) < MaxRequests
    /\ LET req == [route |-> routeName, params |-> params, body |-> body]
       IN  exchanges' = Append(exchanges, [request |-> req, response |-> route(req)])
    /\ UNCHANGED <<pattern, playbackState, selectedTrack, selectedStep, stepPlaybackCache,
                   updateQueue, isUpdating, rafScheduled, lastUpdateTime, sequence,
                   liveSequences, now, transport, drawQueue, audioVars, inputVars, midiVars,
                   padVars>>
----------------------------------------------------------------------------
(* Specifications *)

Init ==
    /\ SeqInit
    /\ lastFire = [step |-> -1, optimized |-> {}, plain |-> {}]
    /\ toggleCalls = {}
    /\ lastWrite = {}
    /\ AudioInit
    /\ InputInit
    /\ PadInit
    /\ BackendInit

\* half a frame, and a frame
TickArgs == {minUpdateInterval \div 2, minUpdateInterval}

Draws == 0..(RandRes - 1)

(* The sequencer while it is edited and played *)

ToggleArgs == {<<"track-0", 0>>, <<"track-1", 1>>}

Next ==
    \/ \E call \in ToggleArgs : toggleStep(call[1], call[2]) /\ UNCHANGED obsVars
    \/ processUpdateQueue /\ UNCHANGED obsVars
    \/ updateStepVelocity("track-0", 0, Num(64)) /\ UNCHANGED obsVars
    \/ updateStepPan("track-0", 0, Num(-1)) /\ UNCHANGED obsVars
    \/ play /\ UNCHANGED obsVars
    \/ stop /\ UNCHANGED obsVars
    \/ transport.position = 0 /\ stepCallback(0, 0) /\ UNCHANGED obsVars
    \/ drawCallback /\ UNCHANGED obsVars
    \/ selectTrack("track-2") /\ UNCHANGED obsVars
    \/ toggleMute("track-0") /\ UNCHANGED obsVars
    \/ toggleSolo("track-1") /\ UNCHANGED obsVars
    \/ tick(minUpdateInterval) /\ UNCHANGED obsVars

Spec == Init /\ [][Next]_vars
----------------------------------------------------------------------------
(* Cache coherence *)

\* the ids of the tracks that are not muted and whose step s is active
playableIds(s) ==
    { pattern.tracks[i].id : i \in { j \in DOMAIN pattern.tracks :
        ~pattern.tracks[j].mute /\ pattern.tracks[j].steps[s + 1].isActive } }

\* the ids of the tracks cached for step s
cachedIds(s) == { stepPlaybackCache[s][i].id : i \in DOMAIN stepPlaybackCache[s] }

\* C1: whenever a step callback can run while the sequencer is playing, the cache
\* holds, for every step s of 0..15, exactly the tracks (by id, each once) that are
\* not muted and whose step s is active in the current pattern
C1_CacheCoherent ==
    (playbackState.isPlaying /\ sequence = "live") =>
        \A s \in 0..15 :
            /\ s \in DOMAIN stepPlaybackCache
            /\ cachedIds(s) = playableIds(s)
            /\ Len(stepPlaybackCache[s]) = Cardinality(playableIds(s))

\* a step callback has run while playing, after toggles, a solo and the mute of a track
\* with an active step
C1_PlayedAfterEdits ==
    /\ playbackState.isPlaying
    /\ transport.position > 0
    /\ lastUpdateTime = now
    /\ updateQueue = <<>>
    /\ pattern.tracks[1].mute
    /\ pattern.tracks[1].steps[1].isActive
    /\ pattern.tracks[2].steps[2].isActive
    /\ pattern.tracks[2].solo
    /\ cachedIds(0) = {}
    /\ cachedIds(1) = {"track-1"}
----------------------------------------------------------------------------
(* The cached and the uncached playback path *)

NextPlayback ==
    \/ toggleStep("track-0", 0) /\ UNCHANGED obsVars
    \/ processUpdateQueue /\ UNCHANGED obsVars
    \/ updateStepVelocity("track-0", 0, Num(64)) /\ UNCHANGED obsVars
    \/ updateStepPan("track-0", 0, Num(-1)) /\ UNCHANGED obsVars
    \/ toggleMute("track-0") /\ UNCHANGED obsVars
    \/ play /\ UNCHANGED obsVars
    \/ stop /\ UNCHANGED obsVars
    \/ stepCallback(0, 0) /\ observeFire(0, 0) /\ UNCHANGED <<toggleCalls, lastWrite>>
    \/ drawCallback /\ UNCHANGED obsVars
    \/ tick(minUpdateInterval) /\ UNCHANGED obsVars

SpecPlayback == Init /\ [][NextPlayback]_vars

\* what a trigger tells of the pad, the velocity of the step and its pan
padVelocityPan(triggers) ==
    { [padIndex |-> t.padIndex, velocity |-> t.stepVelocity, pan |-> t.pan] : t \in triggers }

\* C2: every step fired during playback triggers through playStepOptimized the pads,
\* with the velocities and pans, that playStep would trigger from the current pattern
C2_PathsAgree ==
    padVelocityPan(lastFire.optimized) = padVelocityPan(lastFire.plain)

\* a step fired while playing with a pad to trigger
C2_Fired ==
    /\ lastFire.step = 0
    /\ lastFire.plain # {}
    /\ lastFire.optimized # {}
----------------------------------------------------------------------------
(* Batched toggles *)

VelocityArgs == {Num(64), Num(127)}

NextQueue ==
    \/ \E call \in ToggleArgs :
          /\ toggleStep(call[1], call[2])
          /\ toggleCalls' = countToggle(toggleCalls, call[1], call[2])
          /\ UNCHANGED <<lastFire, lastWrite>>
    \/ processUpdateQueue /\ UNCHANGED obsVars
    \/ \E velocity \in VelocityArgs :
          updateStepVelocity("track-0", 0, velocity) /\ UNCHANGED obsVars
    \/ play /\ UNCHANGED obsVars
    \/ \E ms \in TickArgs : tick(ms) /\ UNCHANGED obsVars

SpecQueue == Init /\ [][NextQueue]_vars

\* the update queue has drained
drained == updateQueue = <<>> /\ ~rafScheduled

\* C3: once the update queue has drained, a step is active iff toggleStep was called
\* on it an odd number of times
C3_NoToggleLost ==
    drained =>
        \A i \in DOMAIN pattern.tracks : \A s \in 0..15 :
            pattern.tracks[i].steps[s + 1].isActive
                <=> <<pattern.tracks[i].id, s>> \in toggleCalls

\* toggles were queued and the queue has drained
C3_Drained ==
    /\ drained
    /\ lastUpdateTime < now
    /\ toggleCalls # {}
----------------------------------------------------------------------------
(* Editing the pattern *)

\* a step of the grid, a step index past the end, and a track id that does not exist
EditToggleArgs == {<<"track-0", 0>>, <<"track-0", PatternLength>>, <<"track-16", 0>>}

\* numbers out of the range, and what is not a number
EditVelocityArgs == {Num(200)}

EditPanArgs == {NaN}

EditSwingArgs == {Num(150)}

EditHumanizeArgs == {NaN}

NextEdit ==
    \/ \E call \in EditToggleArgs : toggleStep(call[1], call[2]) /\ UNCHANGED obsVars
    \/ processUpdateQueue /\ UNCHANGED obsVars
    \/ \E velocity \in EditVelocityArgs :
          updateStepVelocity("track-0", 0, velocity) /\ UNCHANGED obsVars
    \/ \E pan \in EditPanArgs : updateStepPan("track-0", 0, pan) /\ UNCHANGED obsVars
    \/ \E amount \in EditSwingArgs : updateGlobalSwing(amount) /\ UNCHANGED obsVars
    \/ \E amount \in EditHumanizeArgs : updateGlobalHumanize(amount) /\ UNCHANGED obsVars
    \/ selectTrack("track-1") /\ UNCHANGED obsVars
    \/ toggleMute("track-0") /\ UNCHANGED obsVars
    \/ toggleSolo("track-1") /\ UNCHANGED obsVars
    \/ tick(minUpdateInterval) /\ UNCHANGED obsVars

SpecEdit == Init /\ [][NextEdit]_vars

\* n is a number from lo to hi
InRange(n, lo, hi) == n # NaN /\ lo <= n /\ n <= hi

\* C4: every step's velocity is in 0..127 and its pan in -1..1, and the global swing
\* and humanize of the pattern are in 0..100
C4_ParametersInRange ==
    /\ \A i \in DOMAIN pattern.tracks : \A s \in DOMAIN pattern.tracks[i].steps :
          /\ InRange(pattern.tracks[i].steps[s].velocity, 0, 127)
          /\ InRange(pattern.tracks[i].steps[s].pan, -PanUnit, PanUnit)
    /\ InRange(pattern.swing, 0, 100)
    /\ InRange(pattern.humanize, 0, 100)

\* out-of-range numbers were passed and clamped
C4_Clamped ==
    /\ pattern.tracks[1].steps[1].velocity = 127
    /\ pattern.swing = 100
    /\ lastUpdateTime > minUpdateInterval
----------------------------------------------------------------------------
(* The tempo *)

\* not a number, numbers below and above the range, and a number within it
BpmArgs == {NaN, Num(30), Num(250), Num(90)}

NextBpm ==
    \/ \E bpm \in BpmArgs : setBPM(bpm) /\ UNCHANGED obsVars
    \/ \E bpm \in BpmArgs : audioSetBPM(bpm) /\ UNCHANGED obsVars
    \/ initialize /\ UNCHANGED obsVars
    \/ initializeResumes /\ UNCHANGED obsVars
    \/ initializeFails /\ UNCHANGED obsVars
    \/ play /\ UNCHANGED obsVars
    \/ stop /\ UNCHANGED obsVars
    \/ startSequencer /\ UNCHANGED obsVars
    \/ stopSequencer /\ UNCHANGED obsVars

SpecBpm == Init /\ [][NextBpm]_vars

----------------------------------------------------------------------------
(* The shape of the pattern *)

\* C6: the pattern has length 16 and 16 tracks with distinct ids, in the order of their
\* construction; track i is bound to pad i and has 16 steps
C6_ShapeFixed ==
    /\ pattern.length = 16
    /\ Len(pattern.tracks) = 16
    /\ \A i \in 1..16 :
          /\ pattern.tracks[i].id = initializePattern.tracks[i].id
          /\ pattern.tracks[i].padIndex = i - 1
          /\ Len(pattern.tracks[i].steps) = 16
    /\ \A i, j \in 1..16 : pattern.tracks[i].id = pattern.tracks[j].id => i = j

\* a pattern after a toggle, a velocity and a pan update, a mute, a solo, a selection
\* and an update of the global swing
C6_Edited ==
    /\ pattern.tracks[1].steps[1].isActive
    /\ pattern.tracks[1].steps[1].velocity = 127
    /\ pattern.tracks[1].steps[1].pan # 0
    /\ pattern.tracks[1].mute
    /\ pattern.tracks[2].solo
    /\ pattern.tracks[2].isSelected
    /\ pattern.swing = 100
    /\ updateQueue = <<>>
----------------------------------------------------------------------------
(* Probability, swing and humanize of a fired step *)

ProbabilityArgs == {Num(0), Num(50), Num(100)}

StepPercentArgs == {Num(0), Num(100)}

GlobalPercentArgs == {Num(0), Num(40)}

\* a pattern whose track 0 has its steps 0 and 1 active, with the given probability,
\* humanize and swing, and the given global swing and humanize
timingPattern(probability, humanize, swing, globalSwing, globalHumanize) ==
    [initializePattern EXCEPT
        !.swing = globalSwing,
        !.humanize = globalHumanize,
        !.tracks[1].steps = [i \in DOMAIN @ |->
            IF i <= 2
            THEN [@[i] EXCEPT !.isActive = TRUE, !.probability = probability,
                              !.humanize = humanize, !.swing = swing]
            ELSE @[i]]]

\* a stopped sequencer that holds one of these patterns
InitTiming ==
    /\ \E probability \in ProbabilityArgs, humanize, swing \in StepPercentArgs,
          globalSwing, globalHumanize \in GlobalPercentArgs :
          pattern = timingPattern(probability, humanize, swing, globalSwing, globalHumanize)
    /\ playbackState = [isPlaying |-> FALSE, currentStep |-> 0,
                        bpm |-> Num(DefaultBpm), subdivision |-> 16]
    /\ selectedTrack = "null"
    /\ selectedStep = -1
    /\ stepPlaybackCache = [k \in {} |-> <<>>]
    /\ updateQueue = <<>>
    /\ isUpdating = FALSE
    /\ rafScheduled = FALSE
    /\ lastUpdateTime = 0
    /\ sequence = "null"
    /\ liveSequences = 0
    /\ now = minUpdateInterval
    /\ transport = [state |-> "stopped", position |-> 0, bpm |-> Num(DefaultBpm)]
    /\ drawQueue = <<>>
    /\ lastFire = [step |-> -1, optimized |-> {}, plain |-> {}]
    /\ toggleCalls = {}
    /\ lastWrite = {}
    /\ AudioInit
    /\ InputInit
    /\ PadInit
    /\ BackendInit

NextTiming ==
    \/ play /\ UNCHANGED obsVars
    \/ stop /\ UNCHANGED obsVars
    \/ \E rp, rh \in Draws :
          stepCallback(rp, rh) /\ observeFire(rp, rh) /\ UNCHANGED <<toggleCalls, lastWrite>>
    \/ drawCallback /\ UNCHANGED obsVars
    \/ \E stepIndex \in 0..1, r \in {0, RandRes - 1} :
          timingHelpers(stepIndex, pattern.swing, pattern.humanize, r) /\ UNCHANGED obsVars

SpecTiming == InitTiming /\ [][NextTiming]_vars

\* the step of track 0 that fired last
firedStep == pattern.tracks[1].steps[lastFire.step + 1]

----------------------------------------------------------------------------
(* Timing offsets *)

\* the delay of the step that fired last, by its swing: the larger of the swing of the
\* step and of the pattern, as a percentage of 50 ms, on an odd step
swingDelay ==
    IF lastFire.step % 2 = 1
    THEN ((IF firedStep.swing > pattern.swing THEN firedStep.swing ELSE pattern.swing)
            * 50 * UnitsPerMs) \div 100
    ELSE 0

\* no swing and no humanize, on the step and on the pattern
allZero ==
    /\ firedStep.swing = 0 /\ pattern.swing = 0
    /\ firedStep.humanize = 0 /\ pattern.humanize = 0

\* C8: a trigger is scheduled at the nominal time of its step plus the swing delay, which
\* is 0 on an even step and at most 50 ms, shifted by humanize by at most 20 ms either
\* way, and exactly at the nominal time when swing and humanize are all 0; applySwing
\* and applyHumanize keep the same bounds
C8_TimingBounded ==
    /\ lastFire.step >= 0 =>
          \A t \in lastFire.optimized \cup lastFire.plain :
              /\ swingDelay <= 50 * UnitsPerMs
              /\ t.time - swingDelay >= -20 * UnitsPerMs
              /\ t.time - swingDelay <= 20 * UnitsPerMs
              /\ (firedStep.humanize = 0 /\ pattern.humanize = 0) => t.time = swingDelay
              /\ allZero => t.time = 0
    /\ helperOut.swing = IF helperOut.stepIndex % 2 = 1
                         THEN (helperOut.swingAmount * 50 * UnitsPerMs) \div 100
                         ELSE 0
    /\ helperOut.swing <= 50 * UnitsPerMs
    /\ helperOut.humanize >= -20 * UnitsPerMs
    /\ helperOut.humanize <= 20 * UnitsPerMs
    /\ helperOut.humanizeAmount = 0 => helperOut.humanize = 0

\* an odd step fired with swing and humanize and was both delayed and shifted
C8_Swung ==
    /\ lastFire.step = 1
    /\ firedStep.swing = 100
    /\ pattern.humanize = 40
    /\ \E t \in lastFire.optimized : t.time < swingDelay
    /\ lastFire.plain # {}
    /\ helperOut.stepIndex = 1
    /\ helperOut.swing > 0
    /\ helperOut.humanize < 0
----------------------------------------------------------------------------
(* Starting and stopping *)

NextTransport ==
    \/ toggleStep("track-0", 0) /\ UNCHANGED obsVars
    \/ play /\ UNCHANGED obsVars
    \/ stop /\ UNCHANGED obsVars
    \/ stepCallback(0, 0) /\ UNCHANGED obsVars
    \/ drawCallback /\ UNCHANGED obsVars
    \/ startSequencer /\ UNCHANGED obsVars
    \/ stopSequencer /\ UNCHANGED obsVars
    \/ togglePlayback /\ UNCHANGED obsVars
    \/ setBPM(Num(90)) /\ UNCHANGED obsVars

SpecTransport == Init /\ [][NextTransport]_vars

\* C9: whenever the sequencer is not playing, its current step is 0
C9_StoppedAtZero ==
    ~playbackState.isPlaying => playbackState.currentStep = 0

\* the sequencer was stopped after a step callback had shown its step
C9_Stopped ==
    /\ ~playbackState.isPlaying
    /\ sequence = "null"
    /\ transport.state = "stopped"
    /\ playbackState.currentStep = 0
    /\ stepPlaybackCache = [k \in {} |-> <<>>]
    /\ drawQueue # <<>>
----------------------------------------------------------------------------
(* The keyboard *)

KeyCodes == {"KeyQ", "Digit1", "ShiftLeft", "Space"}

NextInput ==
    \/ startListening /\ UNCHANGED obsVars
    \/ stopListening /\ UNCHANGED obsVars
    \/ \E code \in KeyCodes : keyPress(code) /\ UNCHANGED obsVars
    \/ \E code \in KeyCodes : keyRepeat(code) /\ UNCHANGED obsVars
    \/ \E code \in KeyCodes : keyUp(code) /\ UNCHANGED obsVars

SpecInput == Init /\ [][NextInput]_vars

\* the key of a keyboard event is mapped to a pad
mappedKey(evKey) ==
    findPad(qwertyMapping, toLowerCase(evKey)) # -1 \/ findPad(numberMapping, evKey) # -1

\* C10: a keydown the listeners hear does not trigger again a pad its key has triggered
\* since it went down when it repeats a held key, and triggers its pad when its key is
\* mapped and was up
C10_RepeatSuppressed ==
    (lastKey.heard /\ lastKey.type = "keydown") =>
        /\ lastKey.repeat =>
              \A i \in DOMAIN lastKey.pads : lastKey.pads[i] \notin lastKey.before
        /\ (~lastKey.repeat /\ mappedKey(lastKey.key)) => Len(lastKey.pads) = 1

\* a held mapped key repeated without a trigger
C10_Held ==
    /\ lastKey.heard
    /\ lastKey.type = "keydown"
    /\ lastKey.repeat
    /\ lastKey.code = "KeyQ"
    /\ lastKey.before = {0}
    /\ lastKey.pads = <<>>
----------------------------------------------------------------------------
(* Listening and the documented layout *)

\* C11: while the InputService is not listening, a keydown event triggers no pad and
\* makes no togglePlayback or stopAllPads call
C11_StoppedInputSilent ==
    [][(~isListening /\ lastKey' # lastKey /\ lastKey'.type = "keydown") =>
          (lastKey'.pads = <<>> /\ lastKey'.special = <<>>)]_vars

\* a keydown event arrived after stopListening()
C11_Stopped ==
    /\ ~isListening
    /\ listeners > 0
    /\ lastKey.type = "keydown"
    /\ lastKey.code = "KeyQ"
    /\ ~lastKey.repeat

\* the layout that showKeyboardLayout prints: the keys of pads 1..16, in QWERTY mode
\* and in number mode
layoutQwerty ==
    << "Q", "W", "E", "R", "T", "Y", "U", "I", "A", "S", "D", "F", "G", "H", "J", "K" >>

layoutNumber ==
    << "1", "2", "3", "4", "5", "6", "7", "8", "9", "0", "!", "@", "#", "$", "%", "^" >>

\* the keys that change the event.key of the other keys
modifierCodes == {"ShiftLeft"}

LayoutCodes == { keyboard[i].code : i \in DOMAIN keyboard } \ modifierCodes

heldKeys == DOMAIN keysHeld \ modifierCodes

\* one key at a time is typed, with or without Shift, which goes down before the key
\* and up after it
NextLayout ==
    \/ startListening /\ UNCHANGED obsVars
    \/ \E code \in LayoutCodes : heldKeys = {} /\ keyPress(code) /\ UNCHANGED obsVars
    \/ \E code \in LayoutCodes : keyRepeat(code) /\ UNCHANGED obsVars
    \/ \E code \in LayoutCodes : keyUp(code) /\ UNCHANGED obsVars
    \/ \E code \in modifierCodes : heldKeys = {} /\ keyPress(code) /\ UNCHANGED obsVars
    \/ \E code \in modifierCodes : heldKeys = {} /\ keyUp(code) /\ UNCHANGED obsVars

SpecLayout == Init /\ [][NextLayout]_vars

\* the small letter of a capital letter of the keyboard
smallLetter(capital) ==
    letterKeys[CHOOSE i \in DOMAIN letterKeys : letterKeys[i].shifted = capital].key

\* the pads the printed layout gives to a key, numbered from 0
documentedPads(evKey) ==
    { i - 1 : i \in { j \in 1..NumPads :
                        evKey \in {layoutQwerty[j], smallLetter(layoutQwerty[j]),
                                   layoutNumber[j]} } }

\* the pads a mapping gives a key to
keysOfPad(mapping, pad) == { i \in DOMAIN mapping : mapping[i].padIndex = pad }

\* C12: each of the 16 pads has exactly one key in the QWERTY mapping and exactly one in
\* the number mapping, and the press of a key that was up triggers exactly the pad the
\* printed layout gives to that key, whatever the case of a letter, and no pad when the
\* layout does not name the key
C12_LayoutAsDocumented ==
    /\ \A pad \in 0..(NumPads - 1) :
          /\ Cardinality(keysOfPad(qwertyMapping, pad)) = 1
          /\ Cardinality(keysOfPad(numberMapping, pad)) = 1
    /\ (lastKey.heard /\ lastKey.type = "keydown" /\ ~lastKey.repeat) =>
          /\ Len(lastKey.pads) = Cardinality(documentedPads(lastKey.key))
          /\ { lastKey.pads[i] : i \in DOMAIN lastKey.pads } = documentedPads(lastKey.key)

\* the capital K was typed and triggered the last pad
C12_CapitalTyped ==
    /\ lastKey.heard
    /\ lastKey.type = "keydown"
    /\ lastKey.key = "K"
    /\ lastKey.pads = <<15>>
----------------------------------------------------------------------------
(* MIDI input and the volume of a triggered pad *)

\* status bytes around the Note On range, notes around the range of the pads, and
\* velocities
MidiStatusArgs == {143, 144, 159, 160}

MidiNoteArgs == {47, 48, 63, 64}

MidiVelocityArgs == {0, 64, 127}

NextMidi ==
    \/ startListening /\ UNCHANGED obsVars
    \/ stopListening /\ UNCHANGED obsVars
    \/ midiAccessGranted /\ UNCHANGED obsVars
    \/ midiAccessDenied /\ UNCHANGED obsVars
    \/ \E status \in MidiStatusArgs, note \in MidiNoteArgs, velocity \in MidiVelocityArgs :
          midiMessage(status, note, velocity) /\ UNCHANGED obsVars
    \/ tick(minPlayInterval) /\ UNCHANGED obsVars

SpecMidi == Init /\ [][NextMidi]_vars

\* C13: a MIDI message that is heard triggers a pad exactly when its status is 144..159,
\* its velocity is above 0 and its note is 48..63, and the pad is then the note less 48
C13_MidiMapsNotes ==
    lastInput.source = "MIDI" =>
        LET status   == lastInput.data[1]
            note     == lastInput.data[2]
            velocity == lastInput.data[3]
        IN  IF 144 <= status /\ status <= 159 /\ velocity > 0 /\ 48 <= note /\ note <= 63
            THEN /\ lastInput.triggers # <<>>
                 /\ \A i \in DOMAIN lastInput.triggers : lastInput.triggers[i] = note - 48
            ELSE lastInput.triggers = <<>>

\* the highest note of the range was played and triggered the last pad
C13_LastNote ==
    /\ lastInput.source = "MIDI"
    /\ lastInput.data = <<159, 63, 127>>
    /\ lastInput.triggers = <<15>>

\* a page with the sampler, one file for its first pad, and a Note On and a key for
\* that pad
NextVolume ==
    \/ createSampler /\ UNCHANGED obsVars
    \/ ngOnInit /\ UNCHANGED obsVars
    \/ \E started \in BOOLEAN : ngOnInitResumes(started) /\ UNCHANGED obsVars
    \/ ngOnDestroy /\ UNCHANGED obsVars
    \/ midiAccessGranted /\ UNCHANGED obsVars
    \/ loadFileToEmptyPad("kick.wav", 0) /\ UNCHANGED obsVars
    \/ \E i \in 1..MaxLoads, started \in BOOLEAN :
          loadCallInitialized(i, started) /\ UNCHANGED obsVars
    \/ \E k \in 1..MaxLoads, started \in BOOLEAN :
          loadInitialized(k, started) /\ UNCHANGED obsVars
    \/ \E k \in 1..MaxLoads, ok \in BOOLEAN : loadSettles(k, ok) /\ UNCHANGED obsVars
    \/ midiMessage(NoteOnFirst, FirstMidiNote, 64) /\ UNCHANGED obsVars
    \/ keyPress("KeyQ") /\ UNCHANGED obsVars
    \/ keyUp("KeyQ") /\ UNCHANGED obsVars
    \/ tick(minPlayInterval) /\ UNCHANGED obsVars

SpecVolume == Init /\ [][NextVolume]_vars

\* C14: a pad that sounds for a MIDI Note On of velocity v sounds at volume v/127, and a
\* pad that sounds for a key of the keyboard at volume 1
C14_VolumeFromVelocity ==
    \A i \in DOMAIN lastInput.plays :
        /\ lastInput.source = "MIDI" =>
              lastInput.plays[i].volume * 127 = lastInput.velocity * VolumeUnit
        /\ lastInput.source \in {"QWERTY", "NUMBER"} =>
              lastInput.plays[i].volume = VolumeUnit

\* a loaded pad sounded for a Note On while no sampler component was registered
C14_PlayedUnregistered ==
    /\ lastInput.source = "MIDI"
    /\ lastInput.velocity = 64
    /\ lastInput.plays = <<[pad |-> 0, volume |-> 64 * MaxPercent]>>
    /\ samplerComponent = "null"
----------------------------------------------------------------------------
(* Loading files to the pads *)

\* two files, one of them with a dot in its name, for two pads
FileArgs == {"kick.wav", "loop.v2.wav"}

LoadPadArgs == {0, 1}

NextLoad ==
    \/ createSampler /\ UNCHANGED obsVars
    \/ \E file \in FileArgs, padIndex \in LoadPadArgs :
          loadFileToEmptyPad(file, padIndex) /\ UNCHANGED obsVars
    \/ \E i \in 1..MaxLoads, started \in BOOLEAN :
          loadCallInitialized(i, started) /\ UNCHANGED obsVars
    \/ \E k \in 1..MaxLoads, started \in BOOLEAN :
          loadInitialized(k, started) /\ UNCHANGED obsVars
    \/ \E k \in 1..MaxLoads, ok \in BOOLEAN : loadSettles(k, ok) /\ UNCHANGED obsVars

SpecLoad == Init /\ [][NextLoad]_vars

\* the loads of a pad that have not settled
pendingLoads(padIndex) ==
    { k \in DOMAIN loads : loads[k].pad = padIndex /\ loads[k].state # "settled" }

\* C15: a pad has at most one load that has not settled, and a record in
\* loadingPromises exactly while it has one, which is that load; a call that waits
\* for a load waits for the pending load of its pad, and a call that has resolved has
\* the result of the load it waited for
C15_OneLoadPerPad ==
    /\ \A padIndex \in Pads :
          /\ Cardinality(pendingLoads(padIndex)) <= 1
          /\ has(loadingPromises, padIndex) <=> pendingLoads(padIndex) # {}
          /\ has(loadingPromises, padIndex) =>
                loadingPromises[padIndex] \in pendingLoads(padIndex)
    /\ \A i \in DOMAIN loadCalls :
          /\ loadCalls[i].pc = "load" => loadCalls[i].load \in pendingLoads(loadCalls[i].pad)
          /\ loadCalls[i].pc = "done" =>
                /\ loads[loadCalls[i].load].state = "settled"
                /\ loads[loadCalls[i].load].pad = loadCalls[i].pad
                /\ loadCalls[i].result = loads[loadCalls[i].load].result

\* a call made while a load of another file was in flight for its pad has resolved
\* with the result of that load, and no second load was started
C15_Joined ==
    /\ Len(loadCalls) = 2
    /\ Len(loads) = 1
    /\ loadCalls[2].pc = "done"
    /\ loadCalls[2].result
    /\ loadCalls[2].file # loads[1].file
    /\ loadingPromises = [p \in {} |-> 0]

\* C16: when a call of loadSampleFromFile(p, f) resolves true, the buffer of pad p is
\* the audio of f and the sample name of pad p is the name of f without its extension
C16_LoadedFileOnPad ==
    \A i \in DOMAIN loadCalls :
        (loadCalls[i].pc = "done" /\ loadCalls[i].result) =>
            /\ loadCalls[i].buffer = loadCalls[i].file
            /\ loadCalls[i].sampleName = stripExtension(loadCalls[i].file)

\* a file with two dots in its name was loaded to a pad and named
C16_Loaded ==
    /\ Len(loadCalls) = 1
    /\ loadCalls[1].pc = "done"
    /\ loadCalls[1].result
    /\ loadCalls[1].file = "loop.v2.wav"
    /\ players[1].buffer = "loop.v2.wav"
    /\ players[1].sampleName = "loop.v2"
    /\ sampler.pads[2].isLoaded
----------------------------------------------------------------------------
(* The backend *)

\* the routes of the two controllers, with and without a path parameter
ControllerRoutes ==
    {"POST /api/audio/upload", "POST /api/audio/download", "POST /api/users/register",
     "POST /api/users/login"}

ControllerParamRoutes ==
    {"GET /api/audio/samples/:userId", "DELETE /api/audio/sample/:id",
     "GET /api/users/profile/:id"}

OtherRoutes == {"GET /health", "GET /"}

ParamArgs == {"u1", "u2"}

BodyArgs == {"kick.wav", "snare.mp3"}

NextBackend ==
    \/ \E routeName \in ControllerRoutes, body \in BodyArgs :
          request(routeName, "", body) /\ UNCHANGED obsVars
    \/ \E routeName \in ControllerParamRoutes, params \in ParamArgs :
          request(routeName, params, "") /\ UNCHANGED obsVars
    \/ \E routeName \in OtherRoutes : request(routeName, "", "") /\ UNCHANGED obsVars
    \/ tick(minUpdateInterval) /\ UNCHANGED obsVars

SpecBackend == Init /\ [][NextBackend]_vars

\* the requests answered so far that went to a controller
toController ==
    { i \in DOMAIN exchanges :
        exchanges[i].request.route \in ControllerRoutes \cup ControllerParamRoutes }

----------------------------------------------------------------------------
(* The sampler component *)

NextSampler ==
    \/ createSampler /\ UNCHANGED obsVars
    \/ ngOnInit /\ UNCHANGED obsVars
    \/ \E started \in BOOLEAN : ngOnInitResumes(started) /\ UNCHANGED obsVars
    \/ ngOnDestroy /\ UNCHANGED obsVars
    \/ clickPad(0) /\ UNCHANGED obsVars
    \/ padTimeout(0) /\ UNCHANGED obsVars
    \/ selectPad(1) /\ UNCHANGED obsVars
    \/ setPadVolume(MaxPercent) /\ UNCHANGED obsVars
    \/ startListening /\ UNCHANGED obsVars
    \/ keyPress("KeyQ") /\ UNCHANGED obsVars
    \/ keyUp("KeyQ") /\ UNCHANGED obsVars
    \/ tick(minPlayInterval) /\ UNCHANGED obsVars

SpecSampler == Init /\ [][NextSampler]_vars

\* a component in the empty state
emptySampler(component) ==
    /\ Len(component.pads) = 16
    /\ \A i \in 1..16 :
          /\ component.pads[i].id = i - 1
          /\ ~component.pads[i].isLoaded
          /\ ~component.pads[i].isActive
          /\ component.pads[i].volume = 80
          /\ component.pads[i].pitch = 0
          /\ component.pads[i].effects = <<>>
    /\ component.selectedPad = -1
    /\ ~component.isPlaying
    /\ component.bpm = 120

----------------------------------------------------------------------------
(* The sequence of the sequencer, and the tempo it shows *)

\* C19: the sequencer holds a sequence exactly when it is playing, that sequence is the
\* only one that was created and not disposed, and there is none when it is not playing
C19_OneLiveSequence ==
    /\ liveSequences <= 1
    /\ liveSequences = 1 <=> playbackState.isPlaying
    /\ sequence = "live" <=> playbackState.isPlaying

\* the sequencer plays, and a step of its sequence has run
C19_Playing ==
    /\ playbackState.isPlaying
    /\ liveSequences = 1
    /\ transport.position > 0
    /\ drawQueue # <<>>

\* C20: the BPM of the playback state is the BPM of the transport
C20_BpmAgrees == playbackState.bpm = transport.bpm

\* the tempo was set through the sequencer while the audio was initialized
C20_SetBySequencer ==
    /\ isInitialized
    /\ playbackState.bpm = 90
    /\ transport.bpm = 90
----------------------------------------------------------------------------
(* The playing flag of the sequencer and the shared transport *)

NextShared ==
    \/ play /\ UNCHANGED obsVars
    \/ stop /\ UNCHANGED obsVars
    \/ startSequencer /\ UNCHANGED obsVars
    \/ stopSequencer /\ UNCHANGED obsVars
    \/ togglePlayback /\ UNCHANGED obsVars
    \/ startListening /\ UNCHANGED obsVars
    \/ keyPress("Space") /\ UNCHANGED obsVars
    \/ keyUp("Space") /\ UNCHANGED obsVars
    \/ stepCallback(0, 0) /\ UNCHANGED obsVars
    \/ drawCallback /\ UNCHANGED obsVars

SpecShared == Init /\ [][NextShared]_vars

\* C21: whenever the sequencer is playing, the transport is started
C21_PlayingMeansStarted ==
    playbackState.isPlaying => transport.state = "started"

\* the sequencer plays on the started transport, and the space bar has toggled the
\* playback of the AudioService on
C21_PlayingWithSpace ==
    /\ playbackState.isPlaying
    /\ transport.state = "started"
    /\ audioPlaying
    /\ lastKey.type = "keydown"
    /\ lastKey.code = "Space"
    /\ lastKey.heard
----------------------------------------------------------------------------
(* The last write of a step under debouncing *)

\* velocities in the range and above it
WriteVelocityArgs == {Num(64), Num(200)}

\* pans in the range and above it
WritePanArgs == {Num(-1), Num(PanUnit + 1)}

\* lastWrite with one more call on the field of a step
written(writes, trackId, stepIndex, field, value, queued) ==
    { w \in writes : ~(w.trackId = trackId /\ w.stepIndex = stepIndex /\ w.field = field) }
        \cup {[trackId |-> trackId, stepIndex |-> stepIndex, field |-> field,
               value |-> value, queued |-> queued]}

NextDebounce ==
    \/ \E velocity \in WriteVelocityArgs :
          /\ updateStepVelocity("track-0", 0, velocity)
          /\ lastWrite' = written(lastWrite, "track-0", 0, "velocity", velocity, debounced)
          /\ UNCHANGED <<lastFire, toggleCalls>>
    \/ \E pan \in WritePanArgs :
          /\ updateStepPan("track-0", 0, pan)
          /\ lastWrite' = written(lastWrite, "track-0", 0, "pan", pan, debounced)
          /\ UNCHANGED <<lastFire, toggleCalls>>
    \/ processUpdateQueue /\ UNCHANGED obsVars
    \/ play /\ UNCHANGED obsVars
    \/ stop /\ lastWrite' = {} /\ UNCHANGED <<lastFire, toggleCalls>>
    \/ \E ms \in TickArgs : tick(ms) /\ UNCHANGED obsVars

SpecDebounce == Init /\ [][NextDebounce]_vars

\* the step a call wrote
writtenStep(w) ==
    LET i == CHOOSE j \in DOMAIN pattern.tracks : pattern.tracks[j].id = w.trackId
    IN  pattern.tracks[i].steps[w.stepIndex + 1]

\* the step has the clamped value of the call
holds(w) ==
    IF w.field = "velocity"
    THEN writtenStep(w).velocity = clampVelocity(w.value)
    ELSE writtenStep(w).pan = clampPan(w.value)

\* C22: once the update queue has drained with no stop() since the calls, the velocity
\* and the pan of a step are the clamped values of the most recent updateStepVelocity
\* and updateStepPan call on it, whether that call was applied at once or queued
C22_LastWriteWins ==
    drained => \A w \in lastWrite : holds(w)

\* the most recent call on the velocity of a step was queued with a value above the
\* range, and the queue has drained and applied it clamped
C22_QueuedApplied ==
    /\ drained
    /\ \E w \in lastWrite :
          /\ w.field = "velocity"
          /\ w.queued
          /\ w.value = 200
          /\ writtenStep(w).velocity = MaxVelocity

====
